---- MODULE Spec2Model ----
(***************************************************************************)
(* A model of the health-metrics synchronisation scripts                   *)
(* (backfill_all_data.py, backfill_sleep_data.py, daily_health_sync.py,    *)
(* repost_sleep_data.py): the upsert protocol against the destination      *)
(* tracker, the OAuth token store of the weight/activity provider and the  *)
(* raw payload cache, the posting loops, the decoding of a sample, the     *)
(* day-by-day sleep fetch and its snapshot, the nutrition sync with its    *)
(* daily constants, and two processes racing on the destination and on     *)
(* the token file.  Every network call is one step whose outcome is        *)
(* chosen by the environment.                                              *)
(***************************************************************************)
EXTENDS Integers, Sequences, FiniteSets, TLC

VARIABLES
    \* ---- destination tracker and the upsert in progress
    points,       \* the destination's measurement and weight-entry rows
    upc,          \* position of the upsert: "idle", "write", "done"
    uscript,      \* the script whose wger_post_* function is running
    req,          \* the arguments of the running upsert
    existing_id,  \* id found by the lookup, 0 for None
    attempt,      \* loop variable of the retry loop
    writes,       \* number of PUT/POST calls issued by the running upsert
    timeouts,     \* how many of them timed out at the client
    clean,        \* every call of the running upsert succeeded so far
    result,       \* what the upsert returned (or raised)
    lookup,       \* history: how the lookup GET of the upsert ended:
                  \* "none", "ok", "failed"
    method,       \* history: HTTP method of the last write call issued
    answered,     \* history: status the destination answered to the last
                  \* write call, 0 when the call raised
    debug_file,   \* the audit logs backfill_debug.log (backfill_all_data)
                  \* and backfill_sleep_debug.log (backfill_sleep_data): the
                  \* lines the running upsert appended, and whether the file
                  \* held lines before them
    absent,       \* history: no row matched the key when the upsert began
    first         \* history: the action of the upsert run just before with
                  \* the same arguments, all of whose calls succeeded and
                  \* which began with no row for the key; "none" otherwise
VARIABLES
    \* ---- token store of the weight/activity provider
    token_file,     \* content of withings_tokens.json, NoTokens when missing
    now,            \* int(time.time())
    tpc,            \* position of get_withings_access_token:
                    \* "idle", "refresh", "oauth", "done"
    tscript,        \* the script whose get_withings_access_token is running
    tokens,         \* the credential load_withings_tokens() returned
    checked_at,     \* history: the time the expiry test read
    refresh_called, \* history: refresh_withings_token was called
    rejected,       \* history: the provider rejected the refresh token
    granted,        \* history: the credential and time of the successful
                    \* refresh or grant of this call
    tresult,        \* what get_withings_access_token returned (or how it ended)
    issued          \* number of credentials the provider has issued
VARIABLES
    \* ---- raw payload cache and the backfill run using it
    withings_cache, \* backfill_cache/withings_<start>_to_<end>.json, per range
    sleep_cache,    \* backfill_cache/sleepnumber_<start>_to_<end>.json
    rpc,            \* position of the backfill run: "idle", "token",
                    \* "activity", "weight", "sleepfetch", "post", "done"
    rsource,        \* "withings" (backfill_withings) or "sleepnumber"
                    \* (backfill_sleep_number)
    rrange,         \* the date range of the run
    activity,       \* local: activity body, NonePayload for None
    weight_data,    \* local: weight body
    all_data,       \* local: sleep payload
    existed,        \* history: raw_data_file.exists() at the start of the run
    fetched,        \* history: the Withings payloads the run has fetched
                    \* itself
    loaded,         \* history: what the run read from the snapshot file
    provider_calls, \* history: provider network calls issued by the run
    dest_called,    \* history: the run issued a destination call
    outcome,        \* how the run ended
    rerun           \* history: the run before had the same source and range,
                    \* wrote the snapshot and failed while posting

VARIABLES
    \* ---- category registry of the destination and the resolve in progress
    categories,   \* the destination's measurement categories, in the order
                  \* the list call returns them; the id is the position
    gpc,          \* position of wger_get_or_create_category:
                  \* "idle", "create", "done"
    gname,        \* argument name
    gunit,        \* argument unit
    gresult,      \* the id returned, 0 when the call raised, -1 while running
    create_calls, \* history: create calls issued, per (name, unit)
    create_lost,  \* history: a create call of the pair was refused or lost
    returned      \* history: the ids returned, per (name, unit)

gvars == <<categories, gpc, gname, gunit, gresult, create_calls, create_lost,
           returned>>

VARIABLES
    \* ---- the posting part of a Withings run (backfill_withings step 2,
    \* sync_withings), point by point
    wscript,        \* the script running
    wpc,            \* "idle", "cat_steps", "cat_bodyfat", "activity",
                    \* "groups", "returned", "aborted" (an exception or exit
                    \* left the function body)
    wcat,           \* per category: "unresolved", "ok", "failed"
    wdays,          \* activity days iterated
    wgroups,        \* measure groups iterated
    wmeasures,      \* measures iterated in the current group
    gdate,          \* calendar day of the current group, 0 before the first
    weight_posted,  \* local flag of the group loop
    last_point,     \* history: how the last upsert of the run ended
    cat_written,    \* history: a measurement write was issued, per category
    first_valid,    \* history: per day, the first weight sample in range of
                    \* the payload, in pounds; 0 for none
    weight_writes,  \* history: per day, weight writes the destination took
    last_written,   \* history: per day, the weight last written
    last_measure,   \* history: the measure of the group read last: its type
                    \* code, its weight in pounds (type 1), weight_posted
                    \* before it, and whether an upsert was called for it
    other_seen      \* history: the run has read a measure of a type the
                    \* loop has no branch for

wvars == <<wscript, wpc, wcat, wdays, wgroups, wmeasures, gdate, weight_posted,
           last_point, cat_written, first_valid, weight_writes, last_written,
           last_measure, other_seen>>

VARIABLES
    \* ---- main of backfill_all_data.py and of daily_health_sync.py
    mscript,      \* the script running
    margs,        \* "both", "withings_only", "sleep_only"
    mpc,          \* "idle", "running", "exited"
    msources,     \* the source functions main has still to call
    attempted,    \* history: the sources whose function was called
    fate,         \* history: per source, what happened while syncing it
    ended,        \* per source, how its function ended: "none", "return",
                  \* "true", "false", "exit", "raise"
    summary,      \* the summary main printed
    exit_status   \* exit status of the process, -1 while running

mvars == <<mscript, margs, mpc, msources, attempted, fate, ended, summary,
           exit_status>>

VARIABLES
    \* ---- one sample of a measure group read by the loop `for m in measures`
    dscript,      \* the script running
    dpc,          \* position in the loop body: "idle", "decoded", "skipped",
                  \* "posted", "passed"
    dm,           \* the sample as the provider sent it: a record with the
                  \* keys it carries among type, value (raw), unit (exponent)
    dvalue,       \* local value, in thousandths; NoValue while unbound
    dwritten      \* history: the value of the write issued for the sample,
                  \* in hundredths; NoValue when none was issued

dvars == <<dscript, dpc, dm, dvalue, dwritten>>

VARIABLES
    \* ---- sync_mfp_nutrition of daily_health_sync.py
    npc,          \* position: "idle", "loaded", "post", "returned", "aborted"
    config,       \* daily_constants.json
    given,        \* history: the record as parse_mfp_screenshot or
                  \* manual_nutrition_entry returned it
    nutrition,    \* local: the record
    constants,    \* local: the enabled daily constants
    combined,     \* local: the record with the constants added
    nidx,         \* loop position in the list measurements
    nposted,      \* history: category and value of the upserts of this run
    nclean,       \* history: every call of this run succeeded
    nempty,       \* history: the destination held no point when the run
                  \* began
    nsecond       \* history: the run before had the same record and
                  \* constants, began on an empty destination and all its
                  \* calls succeeded

nvars == <<npc, config, given, nutrition, constants, combined, nidx, nposted,
           nclean, nempty, nsecond>>

VARIABLES
    \* ---- the day-by-day fetch of backfill_sleep_data.py
    fpc,            \* position of fetch_all_sleep_data: "idle", "loop",
                    \* "returned"
    start_date,     \* argument: a datetime, as [day, tod] (time of day)
    end_date,       \* argument
    current,        \* loop variable
    requested,      \* history: the calendar days of the requests issued, in
                    \* the order of the requests
    all_sleep_data, \* local: the days that answered with sleep data
    fresult,        \* what the function returned: "none" while running,
                    \* "payload", "None"
    events,         \* history: what the loop did, in order: "request" for
                    \* a per-day request, "pause" for asyncio.sleep(0.5)
    snapshots,      \* backfill_cache/sleepnumber_<start>_to_<end>.json, per
                    \* (start day, end day): the days of its sleep_data
    failed,         \* history: the days whose request failed in this fetch
    frozen          \* history: per snapshot file, the days whose request
                    \* had failed in the fetch that wrote it

svars == <<fpc, start_date, end_date, current, requested, all_sleep_data,
           fresult, events, snapshots, failed, frozen>>

VARIABLES
    \* ---- the activity loop of a Withings run against the destination
    ascript,      \* the script running
    apc,          \* position in the loop body for the day record: "idle",
                  \* "steps", "distance", "calories", "returned", "aborted"
    aday,         \* the day record of the payload
    posted,       \* the upserts of this run, in order: category, value,
                  \* how their calls ended, the action reported
    empty_start,  \* history: the destination held no point when the run began
    rows_before,  \* history: the number of points when the run began
    second        \* history: the run before had the same day record, began
                  \* on an empty destination and all its calls succeeded

avars == <<ascript, apc, aday, posted, empty_start, rows_before, second>>

VARIABLES
    \* ---- two sync processes running the upsert of one key at a time
    ppc,          \* per process, position of its upsert: "idle", "write",
                  \* "done"
    peid,         \* per process, existing_id: the id its lookup found, 0 for
                  \* None
    pval,         \* per process, the value it posts
    paction,      \* per process, the action its upsert reported, "none"
                  \* before
    creates       \* history: POST calls the destination has applied

pvars == <<ppc, peid, pval, paction, creates>>

VARIABLES
    \* ---- two sync processes calling get_withings_access_token on one
    \* token file
    qpc,          \* per process: "idle", "refresh", "oauth", "save", "done"
    qscript,      \* per process, the script it runs
    qtokens,      \* per process, the credential load_withings_tokens returned
    qbody,        \* per process, the credential it is about to save
    qresult,      \* per process, what the call returned (or how it ended)
    qsent,        \* history: per process, the refresh token it sent, 0 for
                  \* none
    qstale,       \* history: per process, the refresh token it sent had
                  \* been consumed by then
    consumed      \* provider: the refresh tokens already exchanged

qvars == <<qpc, qscript, qtokens, qbody, qresult, qsent, qstale, consumed>>

cvars == <<withings_cache, sleep_cache, rpc, rsource, rrange, activity,
           weight_data, all_data, existed, fetched, loaded, provider_calls, dest_called,
           outcome, rerun>>

tvars == <<token_file, now, tpc, tscript, tokens, checked_at, refresh_called,
           rejected, granted, tresult, issued>>

uvars == <<points, upc, uscript, req, existing_id, attempt, writes, timeouts,
           clean, result, lookup, method, answered, debug_file, absent, first>>

vars == <<uvars, tvars, cvars, gvars, wvars, mvars, svars, avars, pvars,
          qvars, dvars, nvars>>

\* ------------------------------------------------------------------------
\* Bounds of the model
\* ------------------------------------------------------------------------
MaxPoints == 2          \* rows the destination may hold

Cats   == {1, 2}        \* category ids
Dates  == {1}           \* calendar days of the upsert requests
Values == {1, 2}        \* metric values

\* ------------------------------------------------------------------------
\* Upsert engine: wger_post_measurement / wger_post_weight
\* ------------------------------------------------------------------------
Scripts == {"backfill_all_data", "backfill_sleep_data", "daily_health_sync",
            "repost_sleep_data"}

\* backfill_all_data.py and backfill_sleep_data.py wrap the write in
\* `for attempt in range(max_retries)`; daily_health_sync.py and
\* repost_sleep_data.py issue the write once, outside any try block.
max_retries == 3

HasRetryLoop(s) == s \in {"backfill_all_data", "backfill_sleep_data"}

Requests ==
    [res : {"measurement"}, cat : Cats, date : Dates, value : Values]
    \cup [res : {"weightentry"}, cat : {0}, date : Dates, value : Values]

\* backfill_sleep_data.py and repost_sleep_data.py have
\* wger_post_measurement only
Upserts(s) ==
    IF s \in {"backfill_sleep_data", "repost_sleep_data"}
    THEN {r \in Requests : r.res = "measurement"}
    ELSE Requests

\* the scripts that define debug_log, each with its own DEBUG_LOG_FILE
LogScripts == {"backfill_all_data", "backfill_sleep_data"}

\* the functions that call debug_log: the two wger_post_measurement;
\* wger_post_weight of backfill_all_data.py never does
Logs(s, r) == s \in LogScripts /\ r.res = "measurement"

EmptyLog == [earlier |-> FALSE, lines |-> <<>>]

\* one line of a debug log
Line(kind, r, info) ==
    [kind |-> kind, date |-> r.date, cat |-> r.cat, value |-> r.value,
     info |-> info]

\* (mutant) the file is opened with 'w': the line replaces the content
debug_log_truncating(file, s, r, line) ==
    IF Logs(s, r)
    THEN [file EXCEPT ![s] = [earlier |-> FALSE, lines |-> <<line>>]]
    ELSE file

\* debug_log(message): open(DEBUG_LOG_FILE, 'a'), write one line
debug_log(file, s, r, line) ==
    IF Logs(s, r)
    THEN [file EXCEPT ![s].lines = Append(@, line)]
    ELSE file

\* the lines of earlier upserts stay in the file; the model keeps only
\* the fact that they are there
Earlier(file) ==
    [f \in LogScripts |->
        [earlier |-> file[f].earlier \/ file[f].lines # <<>>, lines |-> <<>>]]

NoRequest == [res |-> "none", cat |-> 0, date |-> 0, value |-> 0]

NoResult == [raised |-> FALSE, success |-> FALSE, action |-> "none", status |-> 0]

\* GET .../measurement/?category=c&date=d, GET .../weightentry/?date=d
Matching(r) ==
    {p \in points : p.res = r.res /\ p.cat = r.cat /\ p.date = r.date}

\* (mutant) every write is a POST to the collection
AppliedAsCreate(r, eid) ==
    points \cup {[id |-> Cardinality(points) + 1, res |-> r.res,
                  cat |-> r.cat, date |-> r.date, value |-> r.value]}

\* (mutant) a PUT adds the value sent to the value of the row
AppliedAdding(r, eid) ==
    IF eid # 0
    THEN {IF p.id = eid
          THEN [p EXCEPT !.cat = r.cat, !.date = r.date,
                         !.value = @ + r.value]
          ELSE p : p \in points}
    ELSE points \cup {[id |-> Cardinality(points) + 1, res |-> r.res,
                       cat |-> r.cat, date |-> r.date, value |-> r.value]}

\* the effect of a PUT (existing_id set) or POST (existing_id None) the
\* destination applies; the destination assigns ids 1, 2, ...
Applied(r, eid) ==
    IF eid # 0
    THEN {IF p.id = eid
          THEN [p EXCEPT !.cat = r.cat, !.date = r.date, !.value = r.value]
          ELSE p : p \in points}
    ELSE points \cup {[id |-> Cardinality(points) + 1, res |-> r.res,
                       cat |-> r.cat, date |-> r.date, value |-> r.value]}

CanApply(eid) == eid # 0 \/ Cardinality(points) < MaxPoints

ActionName(eid) == IF eid # 0 THEN "Updated" ELSE "Posted"

\* requests.put when existing_id is set, requests.post otherwise
Method(eid) == IF eid # 0 THEN "PUT" ELSE "POST"

Returned(ok, act, st) ==
    [raised |-> FALSE, success |-> ok, action |-> act, status |-> st]

Raised(what) ==
    [raised |-> TRUE, success |-> FALSE, action |-> what, status |-> 0]

\* history: the upsert that has just finished is the first of a rerun pair
\* when the next one has the same arguments
FirstOfPair(r) ==
    IF upc = "done" /\ req = r /\ clean /\ absent THEN result.action ELSE "none"

\* Entry of wger_post_*: the lookup GET.  `found` is the id of results[0] when
\* the GET answers 200 with a non-empty list, 0 otherwise.
BeginUpsert(s, r, found, lookupOk) ==
    /\ upc \in {"idle", "done"}
    /\ Cardinality(points) < MaxPoints      \* model bound
    /\ uscript' = s
    /\ req' = r
    /\ existing_id' = found
    /\ attempt' = 0
    /\ writes' = 0
    /\ timeouts' = 0
    /\ clean' = lookupOk
    /\ result' = NoResult
    /\ lookup' = (IF lookupOk THEN "ok" ELSE "failed")
    /\ method' = "none"
    /\ answered' = 0
    /\ debug_file' = debug_log(Earlier(debug_file), s, r, Line("POST", r, 0))
    /\ absent' = (Matching(r) = {})
    /\ first' = FirstOfPair(r)
    /\ upc' = "write"
    /\ UNCHANGED points

\* (mutant) the id of results[0] is never taken
LookupOkNoId ==
    \E s \in Scripts : \E r \in Upserts(s) : BeginUpsert(s, r, 0, TRUE)

\* lookup answers 200: results[0]['id'] if results, else None
LookupOk ==
    \E s \in Scripts : \E r \in Upserts(s) :
        \/ /\ Matching(r) = {}
           /\ BeginUpsert(s, r, 0, TRUE)
        \/ \E p \in Matching(r) : BeginUpsert(s, r, p.id, TRUE)

\* (mutant) a failed lookup still yields the id of a row of the key
LookupFailUpdates ==
    \E s \in Scripts : \E r \in Upserts(s) :
        \E p \in Matching(r) : BeginUpsert(s, r, p.id, FALSE)

\* lookup raises, or answers a non-200 status: existing_id = None
LookupFail ==
    \E s \in Scripts : \E r \in Upserts(s) : BeginUpsert(s, r, 0, FALSE)

\* the write answers 200/201
WriteOk ==
    /\ upc = "write"
    /\ CanApply(existing_id)
    /\ points' = Applied(req, existing_id)
    /\ writes' = writes + 1
    /\ method' = Method(existing_id)
    /\ answered' = (IF existing_id # 0 THEN 200 ELSE 201)
    /\ result' = Returned(TRUE, ActionName(existing_id), 200)
    /\ debug_file' = debug_log(debug_file, uscript, req,
                               Line(ActionName(existing_id), NoRequest, 0))
    /\ upc' = "done"
    /\ UNCHANGED <<uscript, req, existing_id, attempt, timeouts, clean, lookup,
                   absent, first>>

\* (mutant) a rejected write is retried like a timeout
WriteRejectedRetried ==
    /\ upc = "write"
    /\ \E st \in {400, 500} :
          /\ answered' = st
          /\ result' = IF attempt < max_retries - 1
                       THEN NoResult
                       ELSE Returned(FALSE, "Failed", st)
    /\ method' = Method(existing_id)
    /\ writes' = writes + 1
    /\ clean' = FALSE
    /\ attempt' = (IF attempt < max_retries - 1 THEN attempt + 1 ELSE attempt)
    /\ upc' = (IF attempt < max_retries - 1 THEN "write" ELSE "done")
    /\ UNCHANGED <<points, uscript, req, existing_id, timeouts, lookup,
                   debug_file, absent, first>>

\* the write answers another status: not retried
WriteRejected ==
    /\ upc = "write"
    /\ \E st \in {400, 500} :
          /\ answered' = st
          /\ result' = Returned(FALSE, "Failed", st)
          /\ debug_file' = debug_log(debug_file, uscript, req,
                                     Line("HTTP", NoRequest, st))
    /\ method' = Method(existing_id)
    /\ writes' = writes + 1
    /\ clean' = FALSE
    /\ upc' = "done"
    /\ UNCHANGED <<points, uscript, req, existing_id, attempt, timeouts, lookup,
                   absent, first>>

\* what the function does when requests raises Timeout
AfterTimeout(s, att) ==
    IF HasRetryLoop(s)
    THEN IF att < max_retries - 1
         THEN [pc |-> "write", attempt |-> att + 1, result |-> NoResult]
         ELSE [pc |-> "done", attempt |-> att,
               result |-> Returned(FALSE, "Timeout", 0)]
    ELSE [pc |-> "done", attempt |-> att, result |-> Raised("Timeout")]

\* the lines the Timeout handler writes: "Timeout (attempt n)" and, when
\* the attempts are used up, "Timeout after retries"
TimeoutLines(file, s, r, att) ==
    LET one == debug_log(file, s, r, Line("TIMEOUT", NoRequest, att + 1))
    IN  IF att < max_retries - 1
        THEN one
        ELSE debug_log(one, s, r, Line("TIMEOUT after retries", NoRequest, 0))

\* the write times out at the client; the destination may or may not have
\* applied it before the client gave up
WriteTimeout ==
    /\ upc = "write"
    /\ \E applied \in BOOLEAN :
          /\ applied => CanApply(existing_id)
          /\ points' = IF applied THEN Applied(req, existing_id) ELSE points
    /\ writes' = writes + 1
    /\ timeouts' = timeouts + 1
    /\ clean' = FALSE
    /\ method' = Method(existing_id)
    /\ answered' = 0
    /\ debug_file' = TimeoutLines(debug_file, uscript, req, attempt)
    /\ LET n == AfterTimeout(uscript, attempt)
       IN  /\ upc' = n.pc
           /\ attempt' = n.attempt
           /\ result' = n.result
    /\ UNCHANGED <<uscript, req, existing_id, lookup, absent, first>>

\* the write raises another exception (connection refused, ...)
WriteError ==
    /\ upc = "write"
    /\ writes' = writes + 1
    /\ clean' = FALSE
    /\ result' = IF HasRetryLoop(uscript)
                 THEN Returned(FALSE, "Error", 0)
                 ELSE Raised("Error")
    /\ method' = Method(existing_id)
    /\ answered' = 0
    /\ debug_file' = debug_log(debug_file, uscript, req,
                               Line("EXCEPTION", NoRequest, 0))
    /\ upc' = "done"
    /\ UNCHANGED <<points, uscript, req, existing_id, attempt, timeouts, lookup,
                   absent, first>>

\* main of backfill_sleep_data.py, before backfill_sleep_number:
\* if DEBUG_LOG_FILE.exists(): DEBUG_LOG_FILE.unlink()
ClearDebugLog ==
    /\ upc \in {"idle", "done"}
    /\ debug_file["backfill_sleep_data"] # EmptyLog
    /\ debug_file' = [debug_file EXCEPT !["backfill_sleep_data"] = EmptyLog]
    /\ UNCHANGED <<points, upc, uscript, req, existing_id, attempt, writes,
                   timeouts, clean, result, lookup, method, answered, absent,
                   first>>

UpsertInit ==
    /\ points = {}
    /\ upc = "idle"
    /\ uscript = "backfill_all_data"
    /\ req = NoRequest
    /\ existing_id = 0
    /\ attempt = 0
    /\ writes = 0
    /\ timeouts = 0
    /\ clean = FALSE
    /\ result = NoResult
    /\ lookup = "none"
    /\ method = "none"
    /\ answered = 0
    /\ debug_file = [f \in LogScripts |-> EmptyLog]
    /\ absent = FALSE
    /\ first = "none"

\* ------------------------------------------------------------------------
\* Token store: load/save_withings_tokens, refresh_withings_token,
\* get_withings_access_token, oauth_authorize_withings
\* ------------------------------------------------------------------------
MaxGrants == 2          \* credentials the provider issues in one behaviour

Instants  == {0, 1, 2, 3539, 3540, 3541, 3542}   \* clock readings
ExpiresIn == {30, 61, 3600}                      \* lifetimes the provider grants

REFRESH_MARGIN == 60

NoTokens ==
    [access_token |-> 0, refresh_token |-> 0, obtained_at |-> 0, expires_in |-> 0]

\* the body of a successful token response: the n-th credential issued
Body(n, e) == [access_token |-> n, refresh_token |-> n, expires_in |-> e]

NoBody == Body(0, 0)

NoGrant == [at |-> 0, body |-> NoBody]

NoOutcome == [kind |-> "none", token |-> 0]

ReturnToken(tok) == [kind |-> "token", token |-> tok.access_token]

SysExit == [kind |-> "exit", token |-> 0]

Raise == [kind |-> "raise", token |-> 0]

Max(a, b) == IF a > b THEN a ELSE b

\* (mutant) the comparison is >= instead of >
NeedsRefreshGE(tok, t) ==
    t >= tok.obtained_at + Max(tok.expires_in - REFRESH_MARGIN, 0)

\* (mutant) the 60 second margin is forgotten
NeedsRefreshNoMargin(tok, t) ==
    t > tok.obtained_at + tok.expires_in

\* int(time.time()) > obtained + max(expires_in - 60, 0)
NeedsRefresh(tok, t) ==
    t > tok.obtained_at + Max(tok.expires_in - REFRESH_MARGIN, 0)

\* (mutant) obtained_at is carried over from the credential that was loaded
StampedStale(body, t) ==
    [access_token |-> body.access_token, refresh_token |-> body.refresh_token,
     obtained_at |-> tokens.obtained_at, expires_in |-> body.expires_in]

\* body["obtained_at"] = int(time.time())
Stamped(body, t) ==
    [access_token |-> body.access_token, refresh_token |-> body.refresh_token,
     obtained_at |-> t, expires_in |-> body.expires_in]

\* the scripts that define get_withings_access_token
TokenScripts == {"backfill_all_data", "daily_health_sync"}

\* (mutant) a credential that is still valid is saved again, stamped anew
get_withings_access_token_resaving ==
    \E s \in TokenScripts :
        /\ tpc \in {"idle", "done"}
        /\ tscript' = s
        /\ tokens' = token_file
        /\ checked_at' = now
        /\ rejected' = "no"
        /\ granted' = NoGrant
        /\ IF token_file = NoTokens
           THEN /\ refresh_called' = FALSE
                /\ token_file' = token_file
                /\ IF s = "daily_health_sync"
                   THEN tpc' = "oauth" /\ tresult' = NoOutcome
                   ELSE tpc' = "done" /\ tresult' = SysExit
           ELSE IF NeedsRefresh(token_file, now)
                THEN /\ refresh_called' = TRUE
                     /\ token_file' = token_file
                     /\ tpc' = "refresh"
                     /\ tresult' = NoOutcome
                ELSE /\ refresh_called' = FALSE
                     /\ token_file' = [token_file EXCEPT !.obtained_at = now]
                     /\ tpc' = "done"
                     /\ tresult' = ReturnToken(token_file)
        /\ UNCHANGED <<now, issued>>

\* entry of get_withings_access_token: load the file and test the expiry
get_withings_access_token ==
    \E s \in TokenScripts :
        /\ tpc \in {"idle", "done"}
        /\ tscript' = s
        /\ tokens' = token_file
        /\ checked_at' = now
        /\ rejected' = "no"
        /\ granted' = NoGrant
        /\ IF token_file = NoTokens
           THEN /\ refresh_called' = FALSE
                /\ IF s = "daily_health_sync"
                   THEN tpc' = "oauth" /\ tresult' = NoOutcome
                   ELSE tpc' = "done" /\ tresult' = SysExit
           ELSE IF NeedsRefresh(token_file, now)
                THEN /\ refresh_called' = TRUE
                     /\ tpc' = "refresh"
                     /\ tresult' = NoOutcome
                ELSE /\ refresh_called' = FALSE
                     /\ tpc' = "done"
                     /\ tresult' = ReturnToken(token_file)
        /\ UNCHANGED <<token_file, now, issued>>

\* the token endpoint answers status 0: save_withings_tokens, return
GrantSaved(e) ==
    /\ issued < MaxGrants
    /\ issued' = issued + 1
    /\ token_file' = Stamped(Body(issued + 1, e), now)
    /\ granted' = [at |-> now, body |-> Body(issued + 1, e)]
    /\ tresult' = ReturnToken(token_file')
    /\ tpc' = "done"

RefreshOk ==
    /\ tpc = "refresh"
    /\ \E e \in ExpiresIn : GrantSaved(e)
    /\ UNCHANGED <<now, tscript, tokens, checked_at, refresh_called, rejected>>

\* (mutant) a rejected refresh removes the stored credential
RefreshRejectedClears ==
    /\ tpc = "refresh"
    /\ rejected' = "status"
    /\ token_file' = NoTokens
    /\ IF tscript = "daily_health_sync"
       THEN tpc' = "oauth" /\ tresult' = NoOutcome
       ELSE tpc' = "done" /\ tresult' = SysExit
    /\ UNCHANGED <<now, tscript, tokens, checked_at, refresh_called,
                   granted, issued>>

\* the token endpoint answers a non-zero status: refresh_withings_token
\* returns None.  backfill_all_data.py exits; daily_health_sync.py sets
\* tokens = None and falls through to the OAuth authorization.
RefreshRejected ==
    /\ tpc = "refresh"
    /\ rejected' = "status"
    /\ IF tscript = "daily_health_sync"
       THEN tpc' = "oauth" /\ tresult' = NoOutcome
       ELSE tpc' = "done" /\ tresult' = SysExit
    /\ UNCHANGED <<token_file, now, tscript, tokens, checked_at, refresh_called,
                   granted, issued>>

\* the token endpoint answers an HTTP error status (raise_for_status) or
\* the request fails: the exception leaves get_withings_access_token
RefreshError ==
    /\ tpc = "refresh"
    /\ rejected' = "http"
    /\ tresult' = Raise
    /\ tpc' = "done"
    /\ UNCHANGED <<token_file, now, tscript, tokens, checked_at, refresh_called,
                   granted, issued>>

\* oauth_authorize_withings returns the granted credential
OAuthOk ==
    /\ tpc = "oauth"
    /\ \E e \in ExpiresIn : GrantSaved(e)
    /\ UNCHANGED <<now, tscript, tokens, checked_at, refresh_called, rejected>>

\* oauth_authorize_withings raises (OAuth error, token exchange failed)
OAuthFail ==
    /\ tpc = "oauth"
    /\ tresult' = Raise
    /\ tpc' = "done"
    /\ UNCHANGED <<token_file, now, tscript, tokens, checked_at, refresh_called,
                   rejected, granted, issued>>

\* the clock advances
Tick ==
    /\ \E t \in Instants : t > now /\ now' = t
    /\ UNCHANGED <<token_file, tpc, tscript, tokens, checked_at, refresh_called,
                   rejected, granted, tresult, issued>>

TokenQuiet ==
    /\ tpc = "idle"
    /\ tscript = "backfill_all_data"
    /\ tokens = NoTokens
    /\ checked_at = 0
    /\ refresh_called = FALSE
    /\ rejected = "no"
    /\ granted = NoGrant
    /\ tresult = NoOutcome

\* the token file is missing, or holds a credential granted earlier
TokenInit ==
    /\ TokenQuiet
    /\ now \in {0, 1}
    /\ \/ token_file = NoTokens /\ issued = 0
       \/ /\ issued = 1
          /\ \E e \in ExpiresIn, t \in {0, 1} :
                t <= now /\ token_file = Stamped(Body(1, e), t)

\* ------------------------------------------------------------------------
\* Raw payload cache: backfill_withings (backfill_all_data.py) and
\* backfill_sleep_number (backfill_sleep_data.py)
\* ------------------------------------------------------------------------
Ranges   == {1, 2}      \* (start, end) date ranges
Payloads == {0, 1}      \* provider bodies; 0 is the empty body {}

NonePayload == -1

NoFile == [fetch_date |-> -1, activity |-> NonePayload, weight |-> NonePayload]

NoSleepFile == [fetch_date |-> -1, sleep_data |-> NonePayload]

\* Python truth value of a body: None and {} are falsy
Truthy(x) == x # NonePayload /\ x # 0

\* `if not activity or not weight_data`
MustFetch(a, w) == ~Truthy(a) \/ ~Truthy(w)

\* history: the finished run wrote the snapshot and then failed while posting
FailedAfterSave(src, r) ==
    /\ rpc = "done"
    /\ rsource = src
    /\ rrange = r
    /\ ~existed
    /\ outcome = "post_failed"

\* backfill_withings up to the decision whether to fetch
WithingsBegin ==
    \E r \in Ranges :
        LET f == withings_cache[r]
            a == IF f # NoFile THEN f.activity ELSE NonePayload
            w == IF f # NoFile THEN f.weight ELSE NonePayload
        IN  /\ rpc \in {"idle", "done"}
            /\ tpc = "idle"
            /\ rsource' = "withings"
            /\ rrange' = r
            /\ existed' = (f # NoFile)
            /\ fetched' = {}
            /\ loaded' = f
            /\ activity' = a
            /\ weight_data' = w
            /\ all_data' = NonePayload
            /\ provider_calls' = 0
            /\ dest_called' = FALSE
            /\ outcome' = "running"
            /\ rerun' = FailedAfterSave("withings", r)
            /\ rpc' = IF MustFetch(a, w) THEN "token" ELSE "post"
            /\ UNCHANGED <<withings_cache, sleep_cache>>

\* access_token = get_withings_access_token()
WithingsToken ==
    /\ rpc = "token"
    /\ tpc = "idle"
    /\ get_withings_access_token
    /\ tscript' = "backfill_all_data"
    /\ UNCHANGED cvars

\* the refresh request is a provider call
WithingsRefresh ==
    /\ rpc = "token"
    /\ RefreshOk \/ RefreshRejected \/ RefreshError
    /\ provider_calls' = provider_calls + 1
    /\ UNCHANGED <<withings_cache, sleep_cache, rpc, rsource, rrange, activity,
                   weight_data, all_data, existed, fetched, loaded, dest_called,
                   outcome, rerun>>

\* get_withings_access_token has returned, exited or raised
WithingsTokenDone ==
    /\ rpc = "token"
    /\ tpc = "done"
    /\ tpc' = "idle"
    /\ IF tresult.kind = "token"
       THEN rpc' = "activity" /\ outcome' = outcome
       ELSE rpc' = "done" /\ outcome' = "no_token"
    /\ UNCHANGED <<token_file, now, tscript, tokens, checked_at, refresh_called,
                   rejected, granted, tresult, issued>>
    /\ UNCHANGED <<withings_cache, sleep_cache, rsource, rrange, activity,
                   weight_data, all_data, existed, fetched, loaded, provider_calls,
                   dest_called, rerun>>

\* (mutant) the snapshot is written as soon as a payload is there
FetchActivityOkSaves ==
    /\ rpc = "activity"
    /\ \E a \in Payloads :
          /\ activity' = a
          /\ withings_cache' =
                [withings_cache EXCEPT ![rrange] =
                    [fetch_date |-> now, activity |-> a,
                     weight |-> weight_data]]
    /\ provider_calls' = provider_calls + 1
    /\ fetched' = fetched \cup {"activity"}
    /\ rpc' = "weight"
    /\ UNCHANGED <<sleep_cache, rsource, rrange, weight_data, all_data, existed,
                   loaded, dest_called, outcome, rerun>>

\* withings_get_activity returns the body
FetchActivityOk ==
    /\ rpc = "activity"
    /\ \E a \in Payloads : activity' = a
    /\ provider_calls' = provider_calls + 1
    /\ fetched' = fetched \cup {"activity"}
    /\ rpc' = "weight"
    /\ UNCHANGED <<withings_cache, sleep_cache, rsource, rrange, weight_data,
                   all_data, existed, loaded, dest_called, outcome, rerun>>

\* (mutant) what was fetched before the failure is written to the snapshot
FetchFailedSaves ==
    /\ rpc \in {"activity", "weight"}
    /\ provider_calls' = provider_calls + 1
    /\ outcome' = "fetch_failed"
    /\ rpc' = "done"
    /\ withings_cache' =
          [withings_cache EXCEPT ![rrange] =
              [fetch_date |-> now, activity |-> activity, weight |-> 0]]
    /\ UNCHANGED <<sleep_cache, rsource, rrange, activity, weight_data,
                   all_data, existed, fetched, loaded, dest_called, rerun>>

\* withings_get_activity or withings_get_weight raises: the run dies
FetchFailed ==
    /\ rpc \in {"activity", "weight"}
    /\ provider_calls' = provider_calls + 1
    /\ outcome' = "fetch_failed"
    /\ rpc' = "done"
    /\ UNCHANGED <<withings_cache, sleep_cache, rsource, rrange, activity,
                   weight_data, all_data, existed, fetched, loaded, dest_called, rerun>>

\* withings_get_weight returns the body; the snapshot file is written
FetchWeightOk ==
    /\ rpc = "weight"
    /\ \E w \in Payloads :
          /\ weight_data' = w
          /\ withings_cache' =
                [withings_cache EXCEPT ![rrange] =
                    [fetch_date |-> now, activity |-> activity, weight |-> w]]
    /\ provider_calls' = provider_calls + 1
    /\ fetched' = fetched \cup {"weight"}
    /\ rpc' = "post"
    /\ UNCHANGED <<sleep_cache, rsource, rrange, activity, all_data, existed,
                   loaded, dest_called, outcome, rerun>>

\* backfill_sleep_number up to the decision whether to fetch
SleepBegin ==
    \E r \in Ranges :
        LET f == sleep_cache[r]
        IN  /\ rpc \in {"idle", "done"}
            /\ tpc = "idle"
            /\ rsource' = "sleepnumber"
            /\ rrange' = r
            /\ existed' = (f # NoSleepFile)
            /\ fetched' = {}
            /\ loaded' = f
            /\ all_data' = IF f # NoSleepFile THEN f.sleep_data ELSE NonePayload
            /\ activity' = NonePayload
            /\ weight_data' = NonePayload
            /\ provider_calls' = 0
            /\ dest_called' = FALSE
            /\ outcome' = "running"
            /\ rerun' = FailedAfterSave("sleepnumber", r)
            /\ rpc' = IF f # NoSleepFile THEN "post" ELSE "sleepfetch"
            /\ UNCHANGED <<withings_cache, sleep_cache>>

\* fetch_all_sleep_data returns the collected days; the file is written
SleepFetchOk ==
    /\ rpc = "sleepfetch"
    /\ \E d \in Payloads :
          /\ all_data' = d
          /\ sleep_cache' = [sleep_cache EXCEPT ![rrange] =
                                [fetch_date |-> now, sleep_data |-> d]]
    /\ provider_calls' = provider_calls + 1
    /\ rpc' = "post"
    /\ UNCHANGED <<withings_cache, rsource, rrange, activity, weight_data,
                   existed, fetched, loaded, dest_called, outcome, rerun>>

\* fetch_all_sleep_data returns None (no bed, no sleeper) or raises (login)
SleepFetchFailed ==
    /\ rpc = "sleepfetch"
    /\ provider_calls' = provider_calls + 1
    /\ outcome' = "fetch_failed"
    /\ rpc' = "done"
    /\ UNCHANGED <<withings_cache, sleep_cache, rsource, rrange, activity,
                   weight_data, all_data, existed, fetched, loaded, dest_called, rerun>>

\* step 2 of either function: the destination calls (categories, upserts)
PostToWger ==
    /\ rpc = "post"
    /\ dest_called' = TRUE
    /\ \E ok \in BOOLEAN : outcome' = IF ok THEN "posted" ELSE "post_failed"
    /\ rpc' = "done"
    /\ UNCHANGED <<withings_cache, sleep_cache, rsource, rrange, activity,
                   weight_data, all_data, existed, fetched, loaded, provider_calls,
                   rerun>>

CacheQuiet ==
    /\ rpc = "idle"
    /\ rsource = "withings"
    /\ rrange = 1
    /\ activity = NonePayload
    /\ weight_data = NonePayload
    /\ all_data = NonePayload
    /\ existed = FALSE
    /\ fetched = {}
    /\ loaded = NoFile
    /\ provider_calls = 0
    /\ dest_called = FALSE
    /\ outcome = "none"
    /\ rerun = FALSE

\* the cache directory starts empty
CacheInit ==
    /\ CacheQuiet
    /\ withings_cache = [r \in Ranges |-> NoFile]
    /\ sleep_cache = [r \in Ranges |-> NoSleepFile]

\* ------------------------------------------------------------------------
\* Category registry: wger_get_or_create_category
\* ------------------------------------------------------------------------
MaxCategories == 3      \* categories the destination may hold
MaxCreateCalls == 2     \* create calls issued for one (name, unit)

Names == {"Steps", "steps"}
Units == {"ksteps", "steps"}

Pairs == Names \X Units

\* (mutant) names and units are compared after case folding
Fold(x) == IF x = "Steps" THEN "steps" ELSE x

SameCategoryFolded(cat, name, unit) ==
    Fold(cat.name) = Fold(name) /\ Fold(cat.unit) = Fold(unit)

\* cat.get('name') == name and cat.get('unit') == unit
SameCategory(cat, name, unit) == cat.name = name /\ cat.unit = unit

\* the positions of the list that match, in list order
Matches(name, unit) ==
    {i \in 1..Len(categories) : SameCategory(categories[i], name, unit)}

Min(S) == CHOOSE x \in S : \A y \in S : x <= y

\* GET measurement-category/ answers 200: return the id of the first exact
\* match, or go on to create
ListOk ==
    \E name \in Names, unit \in Units :
        /\ gpc \in {"idle", "done"}
        /\ gname' = name
        /\ gunit' = unit
        /\ IF Matches(name, unit) # {}
           THEN /\ gresult' = Min(Matches(name, unit))
                /\ returned' = [returned EXCEPT ![<<name, unit>>] =
                                    @ \cup {Min(Matches(name, unit))}]
                /\ gpc' = "done"
           ELSE /\ gresult' = -1
                /\ returned' = returned
                /\ gpc' = "create"
        /\ UNCHANGED <<categories, create_calls, create_lost>>

\* the list call raises, or raise_for_status() does
ListFailed ==
    \E name \in Names, unit \in Units :
        /\ gpc \in {"idle", "done"}
        /\ gname' = name
        /\ gunit' = unit
        /\ gresult' = 0
        /\ gpc' = "done"
        /\ UNCHANGED <<categories, create_calls, create_lost, returned>>

CanCreate == create_calls[<<gname, gunit>>] < MaxCreateCalls

\* POST measurement-category/ answers 200/201: return r.json()['id']
CreateOk ==
    /\ gpc = "create"
    /\ CanCreate
    /\ Len(categories) < MaxCategories
    /\ categories' = Append(categories, [name |-> gname, unit |-> gunit])
    /\ gresult' = Len(categories) + 1
    /\ returned' = [returned EXCEPT ![<<gname, gunit>>] =
                        @ \cup {Len(categories) + 1}]
    /\ create_calls' = [create_calls EXCEPT ![<<gname, gunit>>] = @ + 1]
    /\ gpc' = "done"
    /\ UNCHANGED <<gname, gunit, create_lost>>

\* POST answers another status: raise Exception("Failed to create category")
CreateRejected ==
    /\ gpc = "create"
    /\ CanCreate
    /\ gresult' = 0
    /\ create_calls' = [create_calls EXCEPT ![<<gname, gunit>>] = @ + 1]
    /\ create_lost' = [create_lost EXCEPT ![<<gname, gunit>>] = TRUE]
    /\ gpc' = "done"
    /\ UNCHANGED <<categories, gname, gunit, returned>>

\* POST raises (timeout, connection error); the destination may or may not
\* have created the category before the client gave up
CreateRaised ==
    /\ gpc = "create"
    /\ CanCreate
    /\ \E applied \in BOOLEAN :
          /\ applied => Len(categories) < MaxCategories
          /\ categories' = IF applied
                           THEN Append(categories, [name |-> gname, unit |-> gunit])
                           ELSE categories
          /\ create_lost' = [create_lost EXCEPT ![<<gname, gunit>>] = @ \/ ~applied]
    /\ gresult' = 0
    /\ create_calls' = [create_calls EXCEPT ![<<gname, gunit>>] = @ + 1]
    /\ gpc' = "done"
    /\ UNCHANGED <<gname, gunit, returned>>

CategoryQuiet ==
    /\ gpc = "idle"
    /\ gname = "Steps"
    /\ gunit = "ksteps"
    /\ gresult = -1
    /\ create_calls = [p \in Pairs |-> 0]
    /\ create_lost = [p \in Pairs |-> FALSE]
    /\ returned = [p \in Pairs |-> {}]

\* the destination holds no category yet, or one created by an earlier run
CategoryInit ==
    /\ CategoryQuiet
    /\ \/ categories = <<>>
       \/ \E p \in Pairs : categories = <<[name |-> p[1], unit |-> p[2]]>>

\* ------------------------------------------------------------------------
\* Posting of a Withings payload: backfill_withings (backfill_all_data.py)
\* and sync_withings (daily_health_sync.py).  The payload is read one item
\* at a time, as the loops do; every upsert is one step here, its outcome
\* that of the upsert engine above.
\* ------------------------------------------------------------------------
MaxDays == 1            \* activity days in the payload
MaxGroups == 2          \* measure groups in the payload
MaxMeasures == 2        \* measures in one group

Days == {1}          \* calendar days of the measure groups
\* weights in kilograms, decoded: the integers on both sides of 30 lb
\* (13.6 kg) and of 350 lb (158.8 kg), and one in between
WeightSamples == {13, 14, 80, 158, 159}

\* two type codes the loop has no branch for (4 is height, 11 heart pulse);
\* its branches are those of the codes 1, 6, 76, 77, 88
OtherTypes == {4, 11}

NoMeasure == [mtype |-> 0, lb |-> 0, before |-> FALSE, wrote |-> FALSE]

Measure(t, lb, before, wrote) ==
    [mtype |-> t, lb |-> lb, before |-> before, wrote |-> wrote]

PostScripts == {"backfill_all_data", "daily_health_sync"}

CatNames == {"Steps", "Body Fat"}

\* fixed-point unit of the model: 5 decimal places, those of 2.20462
Scale == 100000

LB_PER_KG == 220462

MIN_WEIGHT_LB == 30

MAX_WEIGHT_LB == 350

\* weight_lb = value * 2.20462
ToPounds(kg) == kg * LB_PER_KG

\* 30 < weight_lb < 350
InRangeStrict(lb) == MIN_WEIGHT_LB * Scale < lb /\ lb < MAX_WEIGHT_LB * Scale

\* 30 <= weight_lb <= 350
InRange(lb) == MIN_WEIGHT_LB * Scale <= lb /\ lb <= MAX_WEIGHT_LB * Scale

\* backfill_withings resolves every category before the first post;
\* sync_withings resolves the body composition categories after the
\* activity loop
AfterPhase(s, pc) ==
    IF s = "backfill_all_data"
    THEN CASE pc = "cat_steps" -> "cat_bodyfat"
           [] pc = "cat_bodyfat" -> "activity"
           [] pc = "activity" -> "groups"
           [] OTHER -> "returned"
    ELSE CASE pc = "cat_steps" -> "activity"
           [] pc = "activity" -> "cat_bodyfat"
           [] pc = "cat_bodyfat" -> "groups"
           [] OTHER -> "returned"

PointOutcomes == {"ok", "rejected", "timeout"}

\* the upsert returned (success, action); only a timeout in a script
\* without the retry loop leaves it as an exception
UpsertRaises(s, o) ==
    o = "timeout" /\ AfterTimeout(s, max_retries - 1).result.raised

\* the function begins posting (the payload is fetched or loaded)
PostBegin ==
    \E s \in PostScripts :
        /\ wpc \in {"idle", "returned", "aborted"}
        /\ wscript' = s
        /\ wpc' = "cat_steps"
        /\ wcat' = [c \in CatNames |-> "unresolved"]
        /\ wdays' = 0
        /\ wgroups' = 0
        /\ wmeasures' = 0
        /\ gdate' = 0
        /\ weight_posted' = FALSE
        /\ last_point' = "none"
        /\ cat_written' = [c \in CatNames |-> FALSE]
        /\ first_valid' = [d \in Days |-> 0]
        /\ weight_writes' = [d \in Days |-> 0]
        /\ last_written' = [d \in Days |-> 0]
        /\ last_measure' = NoMeasure
        /\ other_seen' = FALSE

PhaseCategory(pc) == IF pc = "cat_steps" THEN "Steps" ELSE "Body Fat"

\* wger_get_or_create_category returns an id
ResolveOk ==
    /\ wpc \in {"cat_steps", "cat_bodyfat"}
    /\ wcat' = [wcat EXCEPT ![PhaseCategory(wpc)] = "ok"]
    /\ wpc' = AfterPhase(wscript, wpc)
    /\ UNCHANGED <<wscript, wdays, wgroups, wmeasures, gdate, weight_posted,
                   last_point, cat_written, first_valid, weight_writes,
                   last_written, last_measure, other_seen>>

\* wger_get_or_create_category raises ("Failed to create category"): no
\* handler in backfill_withings, the handler of sync_withings returns False
ResolveFailed ==
    /\ wpc \in {"cat_steps", "cat_bodyfat"}
    /\ wcat' = [wcat EXCEPT ![PhaseCategory(wpc)] = "failed"]
    /\ wpc' = "aborted"
    /\ UNCHANGED <<wscript, wdays, wgroups, wmeasures, gdate, weight_posted,
                   last_point, cat_written, first_valid, weight_writes,
                   last_written, last_measure, other_seen>>

\* one day of the activity list with steps > 0: wger_post_measurement
ActivityPoint ==
    /\ wpc = "activity"
    /\ wdays < MaxDays
    /\ wdays' = wdays + 1
    /\ cat_written' = [cat_written EXCEPT !["Steps"] = TRUE]
    /\ \E o \in PointOutcomes :
          /\ last_point' = o
          /\ wpc' = IF UpsertRaises(wscript, o) THEN "aborted" ELSE wpc
    /\ UNCHANGED <<wscript, wcat, wgroups, wmeasures, gdate, weight_posted,
                   first_valid, weight_writes, last_written, last_measure,
                   other_seen>>

\* the activity list is exhausted
ActivityEnd ==
    /\ wpc = "activity"
    /\ wpc' = AfterPhase(wscript, wpc)
    /\ UNCHANGED <<wscript, wcat, wdays, wgroups, wmeasures, gdate,
                   weight_posted, last_point, cat_written, first_valid,
                   weight_writes, last_written, last_measure, other_seen>>

\* for grp in measuregrps: date of the group, weight_posted = False
NextGroup ==
    /\ wpc = "groups"
    /\ wgroups < MaxGroups
    /\ wgroups' = wgroups + 1
    /\ wmeasures' = 0
    /\ \E d \in Days : gdate' = d
    /\ weight_posted' = FALSE
    /\ last_measure' = NoMeasure
    /\ UNCHANGED <<wscript, wpc, wcat, wdays, last_point, cat_written,
                   first_valid, weight_writes, last_written, other_seen>>

\* a measure of type 1: posted with wger_post_weight unless the group has
\* posted a weight already or the value is out of range
WeightMeasure ==
    /\ wpc = "groups"
    /\ gdate # 0
    /\ wmeasures < MaxMeasures
    /\ wmeasures' = wmeasures + 1
    /\ \E kg \in WeightSamples :
          LET lb == ToPounds(kg)
          IN  /\ last_measure' =
                    Measure(1, lb, weight_posted, ~weight_posted /\ InRange(lb))
              /\ first_valid' =
                    IF InRange(lb) /\ first_valid[gdate] = 0
                    THEN [first_valid EXCEPT ![gdate] = lb]
                    ELSE first_valid
              /\ IF ~weight_posted /\ InRange(lb)
                 THEN \E o \in PointOutcomes, applied \in BOOLEAN :
                        LET taken == o = "ok" \/ (o = "timeout" /\ applied)
                        IN  /\ o = "rejected" => ~applied
                            /\ o = "ok" => applied
                            /\ last_point' = o
                            /\ weight_posted' = (o = "ok")
                            /\ weight_writes' =
                                  IF taken
                                  THEN [weight_writes EXCEPT ![gdate] = @ + 1]
                                  ELSE weight_writes
                            /\ last_written' =
                                  IF taken
                                  THEN [last_written EXCEPT ![gdate] = lb]
                                  ELSE last_written
                            /\ wpc' = IF UpsertRaises(wscript, o)
                                      THEN "aborted" ELSE wpc
                 ELSE UNCHANGED <<last_point, weight_posted, weight_writes,
                                  last_written, wpc>>
    /\ UNCHANGED <<wscript, wcat, wdays, wgroups, gdate, cat_written,
                   other_seen>>

\* a measure of type 6: wger_post_measurement(date, cat_bodyfat, ...)
BodyFatMeasure ==
    /\ wpc = "groups"
    /\ gdate # 0
    /\ wmeasures < MaxMeasures
    /\ wmeasures' = wmeasures + 1
    /\ cat_written' = [cat_written EXCEPT !["Body Fat"] = TRUE]
    /\ last_measure' = Measure(6, 0, weight_posted, TRUE)
    /\ \E o \in PointOutcomes :
          /\ last_point' = o
          /\ wpc' = IF UpsertRaises(wscript, o) THEN "aborted" ELSE wpc
    /\ UNCHANGED <<wscript, wcat, wdays, wgroups, gdate, weight_posted,
                   first_valid, weight_writes, last_written, other_seen>>

\* a measure of type 76 (muscle mass) or 88 (bone mass):
\* wger_post_measurement(date, cat_muscle / cat_bone, round(value, 2), ...)
MassMeasure ==
    /\ wpc = "groups"
    /\ gdate # 0
    /\ wmeasures < MaxMeasures
    /\ wmeasures' = wmeasures + 1
    /\ \E t \in {76, 88} : last_measure' = Measure(t, 0, weight_posted, TRUE)
    /\ \E o \in PointOutcomes :
          /\ last_point' = o
          /\ wpc' = IF UpsertRaises(wscript, o) THEN "aborted" ELSE wpc
    /\ UNCHANGED <<wscript, wcat, wdays, wgroups, gdate, weight_posted,
                   cat_written, first_valid, weight_writes, last_written,
                   other_seen>>

\* if weight_posted and value > 0
HydrationPosted(flag, positive) == flag /\ positive

\* a measure of type 77 (hydration): posted only when the group has posted
\* a weight before it and the value is positive
HydrationMeasure ==
    /\ wpc = "groups"
    /\ gdate # 0
    /\ wmeasures < MaxMeasures
    /\ wmeasures' = wmeasures + 1
    /\ \E positive \in BOOLEAN :
          LET call == HydrationPosted(weight_posted, positive)
          IN  /\ last_measure' = Measure(77, 0, weight_posted, call)
              /\ IF call
                 THEN \E o \in PointOutcomes :
                        /\ last_point' = o
                        /\ wpc' = IF UpsertRaises(wscript, o)
                                  THEN "aborted" ELSE wpc
                 ELSE UNCHANGED <<last_point, wpc>>
    /\ UNCHANGED <<wscript, wcat, wdays, wgroups, gdate, weight_posted,
                   cat_written, first_valid, weight_writes, last_written,
                   other_seen>>

\* a measure of an unknown type, were it to raise out of the loop
OtherMeasureRaises ==
    /\ wpc = "groups"
    /\ gdate # 0
    /\ wmeasures < MaxMeasures
    /\ wmeasures' = wmeasures + 1
    /\ \E t \in OtherTypes : last_measure' = Measure(t, 0, weight_posted, FALSE)
    /\ other_seen' = TRUE
    /\ wpc' = "aborted"
    /\ UNCHANGED <<wscript, wcat, wdays, wgroups, gdate, weight_posted,
                   last_point, cat_written, first_valid, weight_writes,
                   last_written>>

\* a measure of a type the if/elif chain has no branch for: nothing is done
OtherMeasure ==
    /\ wpc = "groups"
    /\ gdate # 0
    /\ wmeasures < MaxMeasures
    /\ wmeasures' = wmeasures + 1
    /\ \E t \in OtherTypes : last_measure' = Measure(t, 0, weight_posted, FALSE)
    /\ other_seen' = TRUE
    /\ UNCHANGED <<wscript, wpc, wcat, wdays, wgroups, gdate, weight_posted,
                   last_point, cat_written, first_valid, weight_writes,
                   last_written>>

\* the group list is exhausted: the function returns
GroupsEnd ==
    /\ wpc = "groups"
    /\ wpc' = AfterPhase(wscript, wpc)
    /\ UNCHANGED <<wscript, wcat, wdays, wgroups, wmeasures, gdate,
                   weight_posted, last_point, cat_written, first_valid,
                   weight_writes, last_written, last_measure, other_seen>>

PostQuiet ==
    /\ wscript = "backfill_all_data"
    /\ wpc = "idle"
    /\ wcat = [c \in CatNames |-> "unresolved"]
    /\ wdays = 0
    /\ wgroups = 0
    /\ wmeasures = 0
    /\ gdate = 0
    /\ weight_posted = FALSE
    /\ last_point = "none"
    /\ cat_written = [c \in CatNames |-> FALSE]
    /\ first_valid = [d \in Days |-> 0]
    /\ weight_writes = [d \in Days |-> 0]
    /\ last_written = [d \in Days |-> 0]
    /\ last_measure = NoMeasure
    /\ other_seen = FALSE

\* ------------------------------------------------------------------------
\* main of backfill_all_data.py and of daily_health_sync.py: the source
\* functions called one after the other.  One step per source function;
\* the environment chooses what happens while the source is synchronised.
\* ------------------------------------------------------------------------
MainScripts == {"backfill_all_data", "daily_health_sync"}

AllSources == {"sleepnumber", "withings", "nutrition"}

\* --withings-only / --sleep-only of backfill_all_data.py
Args == {"both", "withings_only", "sleep_only"}

\* the calls of main, in order
SourceOrder(s, a) ==
    IF s = "daily_health_sync"
    THEN <<"sleepnumber", "withings", "nutrition">>
    ELSE CASE a = "withings_only" -> <<"withings">>
           [] a = "sleep_only" -> <<"sleepnumber">>
           [] OTHER -> <<"withings", "sleepnumber">>

\* what can happen while a source is synchronised
Fates(src) ==
    CASE src = "withings" ->
            {"ok", "no_credential", "refresh_rejected", "fetch_failed",
             "category_failed"}
      [] src = "sleepnumber" ->
            {"ok", "no_credential", "fetch_failed", "category_failed"}
      [] OTHER -> {"ok", "no_input", "category_failed"}

\* how the source function of the script ends
Ending(s, src, f) ==
    IF s = "backfill_all_data"
    THEN IF src = "withings"
         THEN CASE f = "ok" -> "return"
                [] f \in {"no_credential", "refresh_rejected"} -> "exit"
                [] OTHER -> "raise"
         ELSE IF f = "category_failed" THEN "raise" ELSE "return"
    ELSE CASE src = "sleepnumber" -> "true"
           [] src = "withings" -> IF f = "ok" THEN "true" ELSE "false"
           [] OTHER -> CASE f = "ok" -> "true"
                         [] f = "no_input" -> "false"
                         [] OTHER -> "raise"

MainBegin ==
    \E s \in MainScripts, a \in Args :
        /\ mpc \in {"idle", "exited"}
        /\ s = "daily_health_sync" => a = "both"
        /\ mscript' = s
        /\ margs' = a
        /\ msources' = SourceOrder(s, a)
        /\ attempted' = {}
        /\ fate' = [src \in AllSources |-> "none"]
        /\ ended' = [src \in AllSources |-> "none"]
        /\ summary' = "none"
        /\ exit_status' = -1
        /\ mpc' = "running"

\* main calls the next source function
RunSource ==
    /\ mpc = "running"
    /\ msources # <<>>
    /\ LET src == Head(msources)
       IN  \E f \in Fates(src) :
             LET e == Ending(mscript, src, f)
             IN  /\ attempted' = attempted \cup {src}
                 /\ fate' = [fate EXCEPT ![src] = f]
                 /\ ended' = [ended EXCEPT ![src] = e]
                 /\ IF e \in {"exit", "raise"}
                    THEN /\ mpc' = "exited"
                         /\ exit_status' = 1
                         /\ msources' = msources
                    ELSE /\ mpc' = "running"
                         /\ exit_status' = exit_status
                         /\ msources' = Tail(msources)
    /\ UNCHANGED <<mscript, margs, summary>>

\* the end of main: the summary and the exit status
MainEnd ==
    /\ mpc = "running"
    /\ msources = <<>>
    /\ mpc' = "exited"
    /\ IF mscript = "backfill_all_data"
       THEN summary' = "complete" /\ exit_status' = 0
       ELSE LET withings_ok == ended["withings"] = "true"
                nutrition_ok == ended["nutrition"] = "true"
            IN  IF withings_ok /\ nutrition_ok
                THEN summary' = "all" /\ exit_status' = 0
                ELSE IF withings_ok \/ nutrition_ok
                     THEN summary' = "partial" /\ exit_status' = 0
                     ELSE summary' = "failed" /\ exit_status' = 1
    /\ UNCHANGED <<mscript, margs, msources, attempted, fate, ended>>

MainQuiet ==
    /\ mscript = "backfill_all_data"
    /\ margs = "both"
    /\ mpc = "idle"
    /\ msources = <<>>
    /\ attempted = {}
    /\ fate = [src \in AllSources |-> "none"]
    /\ ended = [src \in AllSources |-> "none"]
    /\ summary = "none"
    /\ exit_status = -1

\* ------------------------------------------------------------------------
\* Day-by-day sleep fetch: main and fetch_all_sleep_data of
\* backfill_sleep_data.py.  A datetime is a calendar day and a time of day.
\* ------------------------------------------------------------------------
MaxBack == 2            \* days --days / --all may go back
MaxFiles == 1           \* snapshot files the cache directory may hold

Today == MaxBack + 1    \* the calendar day of datetime.now()

Tods == {0, 1}          \* times of day: midnight, and later

DateTime(d, t) == [day |-> d, tod |-> t]

\* a <= b on datetimes
Leq(a, b) == a.day < b.day \/ (a.day = b.day /\ a.tod <= b.tod)

\* the (start_date, end_date) main computes: end_date = datetime.now();
\* start_date = end_date - timedelta(days=n) for --days n and --all, or
\* midnight of the day given with --start (which may lie in the future)
MainRanges ==
    {<<DateTime(Today - n, t), DateTime(Today, t)>> :
        n \in 1..MaxBack, t \in Tods}
    \cup {<<DateTime(d, 0), DateTime(Today, t)>> :
             d \in 1..(Today + 1), t \in Tods}

\* (mutant) while current < end_date
InLoopStrict(cur, last) == Leq(cur, last) /\ cur # last

\* while current <= end_date
InLoop(cur, last) == Leq(cur, last)

\* what one request of a day may bring: an answer with sleepData, an
\* answer without, a 404, another error (both caught: None)
DayOutcomes == {"data", "empty", "404", "error"}

\* the file name of the snapshot of a range: the two calendar days
FileOf(from, to) == <<from.day, to.day>>

SleepFiles == {FileOf(r[1], r[2]) : r \in MainRanges}

NoSnapshot == [exists |-> FALSE, days |-> {}]

\* (mutant) a snapshot without any day of data counts as a miss
ExistsWithData(file) == file.exists /\ file.days # {}

\* raw_data_file.exists()
Exists(file) == file.exists

\* model bound: the cache directory has room for another snapshot
RoomFor == Cardinality({f \in SleepFiles : Exists(snapshots[f])}) < MaxFiles

\* backfill_sleep_number finds no snapshot and calls fetch_all_sleep_data;
\* login and bed discovery succeed: current = start_date
SleepFetchBegin ==
    \E r \in MainRanges :
        /\ fpc \in {"idle", "returned"}
        /\ ~Exists(snapshots[FileOf(r[1], r[2])])
        /\ RoomFor
        /\ start_date' = r[1]
        /\ end_date' = r[2]
        /\ current' = r[1]
        /\ requested' = <<>>
        /\ events' = <<>>
        /\ all_sleep_data' = {}
        /\ failed' = {}
        /\ fresult' = "none"
        /\ fpc' = "loop"
        /\ UNCHANGED <<snapshots, frozen>>

\* the same, but no bed or no sleeper was found: fetch_all_sleep_data
\* returns None before the loop and backfill_sleep_number returns
SleepFetchNoBed ==
    \E r \in MainRanges :
        /\ fpc \in {"idle", "returned"}
        /\ ~Exists(snapshots[FileOf(r[1], r[2])])
        /\ RoomFor
        /\ start_date' = r[1]
        /\ end_date' = r[2]
        /\ current' = r[1]
        /\ requested' = <<>>
        /\ events' = <<>>
        /\ all_sleep_data' = {}
        /\ failed' = {}
        /\ fresult' = "None"
        /\ fpc' = "returned"
        /\ UNCHANGED <<snapshots, frozen>>

\* backfill_sleep_number finds the snapshot and loads it: no provider call
SleepReplay ==
    \E r \in MainRanges :
        /\ fpc \in {"idle", "returned"}
        /\ Exists(snapshots[FileOf(r[1], r[2])])
        /\ start_date' = r[1]
        /\ end_date' = r[2]
        /\ current' = r[1]
        /\ requested' = <<>>
        /\ events' = <<>>
        /\ all_sleep_data' = snapshots[FileOf(r[1], r[2])].days
        /\ failed' = {}
        /\ fresult' = "cached"
        /\ fpc' = "returned"
        /\ UNCHANGED <<snapshots, frozen>>

\* (mutant) a turn of the loop without the asyncio.sleep at its end
TurnWithoutPause == <<"request">>

\* what one turn of the loop does, in order: the per-day request, then
\* await asyncio.sleep(0.5)
Turn == <<"request", "pause">>

\* one turn of the while loop: fetch_sleep_data_for_date(current), then
\* current += timedelta(days=1), then the pause
SleepDay ==
    /\ fpc = "loop"
    /\ InLoop(current, end_date)
    /\ requested' = Append(requested, current.day)
    /\ events' = events \o Turn
    /\ \E o \in DayOutcomes :
          /\ all_sleep_data' = IF o = "data"
                               THEN all_sleep_data \cup {current.day}
                               ELSE all_sleep_data
          /\ failed' = IF o \in {"404", "error"}
                       THEN failed \cup {current.day}
                       ELSE failed
    /\ current' = DateTime(current.day + 1, current.tod)
    /\ UNCHANGED <<fpc, start_date, end_date, fresult, snapshots, frozen>>

\* the loop condition is false: the payload is returned and
\* backfill_sleep_number writes it to the snapshot file
SleepFetchReturn ==
    /\ fpc = "loop"
    /\ ~InLoop(current, end_date)
    /\ fresult' = "payload"
    /\ fpc' = "returned"
    /\ snapshots' = [snapshots EXCEPT ![FileOf(start_date, end_date)] =
                        [exists |-> TRUE, days |-> all_sleep_data]]
    /\ frozen' = [frozen EXCEPT ![FileOf(start_date, end_date)] = failed]
    /\ UNCHANGED <<start_date, end_date, current, requested, all_sleep_data,
                   events, failed>>

SleepQuiet ==
    /\ fpc = "idle"
    /\ start_date = DateTime(Today, 0)
    /\ end_date = DateTime(Today, 0)
    /\ current = DateTime(Today, 0)
    /\ requested = <<>>
    /\ all_sleep_data = {}
    /\ fresult = "none"
    /\ events = <<>>
    /\ snapshots = [f \in SleepFiles |-> NoSnapshot]
    /\ failed = {}
    /\ frozen = [f \in SleepFiles |-> {}]

\* ------------------------------------------------------------------------
\* The activity loop of backfill_withings and sync_withings, one day
\* record per run, every upsert one step on the rows of the destination.
\* Values posted are in hundredths of their unit.
\* ------------------------------------------------------------------------
MaxRows == 3            \* rows the destination may hold in these runs

MissingField == -1      \* the key is absent from the record, or None

StepSamples == {MissingField, 0, 8234}          \* steps
DistanceSamples == {0, 5123}                    \* metres
CalorieSamples == {MissingField, 412704}        \* thousandths of a kcal
ActivityDates == {0, 1}                         \* 0: no date in the record

DayRecords ==
    [date : ActivityDates, steps : StepSamples, distance : DistanceSamples,
     calories : CalorieSamples]

\* round(n / d) to the nearest integer, a tie to the even one, as round()
\* does (the samples hold no tie)
RoundDiv(n, d) ==
    LET q == n \div d
        r == n % d
    IN  IF 2 * r > d \/ (2 * r = d /\ q % 2 = 1) THEN q + 1 ELSE q

\* (mutant) the steps are posted as they come
steps_raw(steps) == steps * 100

\* steps_k = round(float(day["steps"]) / 1000, 2)
steps_k(steps) == RoundDiv(steps, 10)

\* distance_km = round(float(day["distance"]) / 1000, 2)
distance_km(distance) == RoundDiv(distance, 10)

\* calories = round(float(day["calories"]), 2)
calories_kcal(calories) == RoundDiv(calories, 10)

\* cat_steps, cat_distance, cat_calories: the categories resolved for
\* these names and units
cat_steps == <<"Steps", "ksteps">>

cat_distance == <<"Distance", "km">>

cat_calories == <<"Calories", "kcal">>

\* "k" in day and day["k"] is not None and day["k"] > 0
Present(x) == x # MissingField /\ x > 0

ActivityRequest(cat, value) ==
    [res |-> "measurement", cat |-> cat, date |-> aday.date, value |-> value]

\* how the calls of one upsert may end: all succeed; the lookup fails and
\* the write succeeds; the write is rejected; the write times out
ActivityOutcomes == {"ok", "lookup_failed", "rejected", "timeout"}

\* one wger_post_measurement(date, cat, value, ...) of the loop body
ActivityUpsert(cat, value, nextpc) ==
    LET r == ActivityRequest(cat, value)
    IN  \E o \in ActivityOutcomes, applied \in BOOLEAN :
          \E eid \in IF o = "lookup_failed" \/ Matching(r) = {}
                      THEN {0} ELSE {p.id : p \in Matching(r)} :
            /\ o \in {"ok", "lookup_failed"} => applied
            /\ o = "rejected" => ~applied
            /\ (applied /\ eid = 0) => Cardinality(points) < MaxRows
            /\ points' = IF applied THEN Applied(r, eid) ELSE points
            /\ posted' = Append(posted,
                    [cat |-> cat, value |-> value, outcome |-> o,
                     action |-> IF applied /\ o # "timeout"
                                THEN ActionName(eid) ELSE "Failed"])
            /\ apc' = IF UpsertRaises(ascript, o) THEN "aborted" ELSE nextpc

\* for day in activities: date = day.get("date"); if not date: continue
ActivityRun(records) ==
    \E s \in {"backfill_all_data", "daily_health_sync"}, d \in records :
        /\ apc \in {"idle", "returned", "aborted"}
        /\ ascript' = s
        /\ aday' = d
        /\ posted' = <<>>
        /\ empty_start' = (points = {})
        /\ rows_before' = Cardinality(points)
        /\ second' = /\ apc = "returned"
                      /\ d = aday
                      /\ empty_start
                      /\ Len(posted) = 3
                      /\ \A i \in 1..3 : posted[i].outcome = "ok"
        /\ apc' = IF d.date = 0 THEN "returned" ELSE "steps"
        /\ UNCHANGED points

ActivityBegin == ActivityRun(DayRecords)

\* if "steps" in day ...: wger_post_measurement(date, cat_steps, steps_k)
ActivitySteps ==
    /\ apc = "steps"
    /\ IF Present(aday.steps)
       THEN ActivityUpsert(cat_steps, steps_k(aday.steps), "distance")
       ELSE apc' = "distance" /\ UNCHANGED <<points, posted>>
    /\ UNCHANGED <<ascript, aday, empty_start, rows_before, second>>

\* if "distance" in day ...: wger_post_measurement(date, cat_distance, ...)
ActivityDistance ==
    /\ apc = "distance"
    /\ IF Present(aday.distance)
       THEN ActivityUpsert(cat_distance, distance_km(aday.distance), "calories")
       ELSE apc' = "calories" /\ UNCHANGED <<points, posted>>
    /\ UNCHANGED <<ascript, aday, empty_start, rows_before, second>>

\* if "calories" in day ...: wger_post_measurement(date, cat_calories, ...)
ActivityCalories ==
    /\ apc = "calories"
    /\ IF Present(aday.calories)
       THEN ActivityUpsert(cat_calories, calories_kcal(aday.calories),
                           "returned")
       ELSE apc' = "returned" /\ UNCHANGED <<points, posted>>
    /\ UNCHANGED <<ascript, aday, empty_start, rows_before, second>>

ActivityQuiet ==
    /\ ascript = "backfill_all_data"
    /\ apc = "idle"
    /\ aday = [date |-> 0, steps |-> MissingField, distance |-> MissingField,
               calories |-> MissingField]
    /\ posted = <<>>
    /\ empty_start = TRUE
    /\ rows_before = 0
    /\ second = FALSE

\* ------------------------------------------------------------------------
\* Two processes (two cron runs, or a backfill beside the daily sync)
\* against one destination and one token file.  Nothing in the scripts
\* locks either of them, so the calls of the two interleave freely.
\* ------------------------------------------------------------------------
Procs == {1, 2}

\* the key both processes post to, with the value of the process
RaceRequest(v) == [res |-> "measurement", cat |-> 1, date |-> 1, value |-> v]

\* the lookup GET of a process answers with the rows of the key
RaceLookup(p) ==
    /\ ppc[p] \in {"idle", "done"}
    /\ \E v \in Values :
          /\ pval' = [pval EXCEPT ![p] = v]
          /\ \/ /\ Matching(RaceRequest(v)) = {}
                /\ peid' = [peid EXCEPT ![p] = 0]
             \/ \E row \in Matching(RaceRequest(v)) :
                   peid' = [peid EXCEPT ![p] = row.id]
    /\ ppc' = [ppc EXCEPT ![p] = "write"]
    /\ paction' = [paction EXCEPT ![p] = "none"]
    /\ UNCHANGED <<points, creates>>

\* (mutant) the destination creates only when the key has no row, and
\* updates the row of the key otherwise, whatever the lookup had found
RaceWriteOkKeyed(p) ==
    /\ ppc[p] = "write"
    /\ LET rows == Matching(RaceRequest(pval[p]))
           eid == IF rows = {} THEN 0 ELSE (CHOOSE row \in rows : TRUE).id
       IN  /\ CanApply(eid)
           /\ points' = Applied(RaceRequest(pval[p]), eid)
           /\ paction' = [paction EXCEPT ![p] = ActionName(eid)]
           /\ creates' = IF eid = 0 THEN creates + 1 ELSE creates
    /\ ppc' = [ppc EXCEPT ![p] = "done"]
    /\ UNCHANGED <<peid, pval>>

\* the write of a process answers 200/201: PUT to the id found by its
\* lookup, POST when it had found none
RaceWriteOk(p) ==
    /\ ppc[p] = "write"
    /\ CanApply(peid[p])
    /\ points' = Applied(RaceRequest(pval[p]), peid[p])
    /\ paction' = [paction EXCEPT ![p] = ActionName(peid[p])]
    /\ creates' = IF peid[p] = 0 THEN creates + 1 ELSE creates
    /\ ppc' = [ppc EXCEPT ![p] = "done"]
    /\ UNCHANGED <<peid, pval>>

\* the write of a process is rejected or fails
RaceWriteFailed(p) ==
    /\ ppc[p] = "write"
    /\ paction' = [paction EXCEPT ![p] = "Failed"]
    /\ ppc' = [ppc EXCEPT ![p] = "done"]
    /\ UNCHANGED <<points, peid, pval, creates>>

UpsertRaceQuiet ==
    /\ ppc = [p \in Procs |-> "idle"]
    /\ peid = [p \in Procs |-> 0]
    /\ pval = [p \in Procs |-> 1]
    /\ paction = [p \in Procs |-> "none"]
    /\ creates = 0

\* the time at which the two processes run: the stored credential, granted
\* at 0 for 3600 seconds, has reached its refresh time
RaceTime == 3541

\* entry of get_withings_access_token in a process
TokenRaceEnter(p) ==
    \E s \in TokenScripts :
        /\ qpc[p] \in {"idle", "done"}
        /\ token_file # NoTokens
        /\ qscript' = [qscript EXCEPT ![p] = s]
        /\ qtokens' = [qtokens EXCEPT ![p] = token_file]
        /\ qbody' = [qbody EXCEPT ![p] = NoTokens]
        /\ qsent' = [qsent EXCEPT ![p] = 0]
        /\ qstale' = [qstale EXCEPT ![p] = FALSE]
        /\ IF NeedsRefresh(token_file, now)
           THEN /\ qpc' = [qpc EXCEPT ![p] = "refresh"]
                /\ qresult' = [qresult EXCEPT ![p] = NoOutcome]
           ELSE /\ qpc' = [qpc EXCEPT ![p] = "done"]
                /\ qresult' = [qresult EXCEPT ![p] = ReturnToken(token_file)]
        /\ UNCHANGED <<token_file, issued, consumed>>

\* (mutant) the refresh token sent is the one the file holds at that time
RefreshTokenOfFile(p) == token_file.refresh_token

\* refresh_withings_token(tokens["refresh_token"]): the token loaded at
\* the entry of the call
RefreshTokenOf(p) == qtokens[p].refresh_token

\* the provider exchanges a refresh token once: it answers status 0 with a
\* new credential and the token is consumed
TokenRaceRefreshOk(p) ==
    /\ qpc[p] = "refresh"
    /\ RefreshTokenOf(p) \notin consumed
    /\ issued < MaxGrants
    /\ issued' = issued + 1
    /\ consumed' = consumed \cup {RefreshTokenOf(p)}
    /\ qsent' = [qsent EXCEPT ![p] = RefreshTokenOf(p)]
    /\ \E e \in ExpiresIn :
          qbody' = [qbody EXCEPT ![p] = Stamped(Body(issued + 1, e), now)]
    /\ qpc' = [qpc EXCEPT ![p] = "save"]
    /\ UNCHANGED <<token_file, qscript, qtokens, qresult, qstale>>

\* the provider answers a non-zero status, as it does for a consumed
\* refresh token, or the request fails (kind "http")
TokenRaceRefreshFailed(p) ==
    /\ qpc[p] = "refresh"
    /\ qsent' = [qsent EXCEPT ![p] = RefreshTokenOf(p)]
    /\ qstale' = [qstale EXCEPT ![p] = RefreshTokenOf(p) \in consumed]
    /\ \E kind \in {"status", "http"} :
          IF kind = "http"
          THEN /\ qpc' = [qpc EXCEPT ![p] = "done"]
               /\ qresult' = [qresult EXCEPT ![p] = Raise]
          ELSE IF qscript[p] = "daily_health_sync"
               THEN /\ qpc' = [qpc EXCEPT ![p] = "oauth"]
                    /\ qresult' = qresult
               ELSE /\ qpc' = [qpc EXCEPT ![p] = "done"]
                    /\ qresult' = [qresult EXCEPT ![p] = SysExit]
    /\ UNCHANGED <<token_file, issued, consumed, qscript, qtokens, qbody>>

\* oauth_authorize_withings returns a new grant
TokenRaceOAuthOk(p) ==
    /\ qpc[p] = "oauth"
    /\ issued < MaxGrants
    /\ issued' = issued + 1
    /\ \E e \in ExpiresIn :
          qbody' = [qbody EXCEPT ![p] = Stamped(Body(issued + 1, e), now)]
    /\ qpc' = [qpc EXCEPT ![p] = "save"]
    /\ UNCHANGED <<token_file, consumed, qscript, qtokens, qresult, qsent,
                   qstale>>

\* oauth_authorize_withings raises
TokenRaceOAuthFail(p) ==
    /\ qpc[p] = "oauth"
    /\ qpc' = [qpc EXCEPT ![p] = "done"]
    /\ qresult' = [qresult EXCEPT ![p] = Raise]
    /\ UNCHANGED <<token_file, issued, consumed, qscript, qtokens, qbody,
                   qsent, qstale>>

\* save_withings_tokens(tokens); return tokens["access_token"]
TokenRaceSave(p) ==
    /\ qpc[p] = "save"
    /\ token_file' = qbody[p]
    /\ qpc' = [qpc EXCEPT ![p] = "done"]
    /\ qresult' = [qresult EXCEPT ![p] = ReturnToken(qbody[p])]
    /\ UNCHANGED <<issued, consumed, qscript, qtokens, qbody, qsent, qstale>>

TokenRaceQuiet ==
    /\ qpc = [p \in Procs |-> "idle"]
    /\ qscript = [p \in Procs |-> "backfill_all_data"]
    /\ qtokens = [p \in Procs |-> NoTokens]
    /\ qbody = [p \in Procs |-> NoTokens]
    /\ qresult = [p \in Procs |-> NoOutcome]
    /\ qsent = [p \in Procs |-> 0]
    /\ qstale = [p \in Procs |-> FALSE]
    /\ consumed = {}

\* ------------------------------------------------------------------------
\* Nutrition sync: load_daily_constants, combine_with_constants and
\* sync_mfp_nutrition of daily_health_sync.py
\* ------------------------------------------------------------------------
MaxMeals == 2           \* entries of daily_meals in daily_constants.json

\* the fields combine_with_constants adds up
Macros == {"calories", "protein_g", "carbs_g", "fat_g", "sodium_mg"}

Record(cal, ex, protein, carbs, fat, sodium) ==
    [date |-> 1, calories |-> cal, exercise_cals |-> ex, protein_g |-> protein,
     carbs_g |-> carbs, fat_g |-> fat, sodium_mg |-> sodium]

\* records of the parser or of the manual entry: every key is there, the
\* values are integers
NutritionRecords ==
    {Record(690, 804, 45, 0, 20, 2300), Record(690, 0, 45, 60, 20, -150),
     Record(690, 0, 0, 0, 0, 0), Record(0, 0, 0, 0, 0, 0)}

\* entries of daily_meals: a shake, the same switched off, a bar without
\* the key enabled and without all macros, an entry that takes sodium
\* off, an entry without name and calories
Meals ==
    {[name |-> "shake", enabled |-> TRUE, calories |-> 160, protein_g |-> 30,
      carbs_g |-> 5, fat_g |-> 3, sodium_mg |-> 150],
     [name |-> "shake", enabled |-> FALSE, calories |-> 160, protein_g |-> 30,
      carbs_g |-> 5, fat_g |-> 3, sodium_mg |-> 150],
     [name |-> "bar", calories |-> 200, protein_g |-> 10],
     [name |-> "water", enabled |-> TRUE, calories |-> 0,
      sodium_mg |-> -2300],
     [enabled |-> TRUE, protein_g |-> 5]}

SeqsUpTo(S, n) == UNION {[1..k -> S] : k \in 0..n}

NoConfig == [exists |-> FALSE, daily_meals |-> <<>>]

\* contents of daily_constants.json, or no file
ConfigsOf(S) ==
    {NoConfig} \cup {[exists |-> TRUE, daily_meals |-> m] :
                        m \in SeqsUpTo(S, MaxMeals)}

\* the records and the files of the runs against the destination: with
\* and without protein; no file, the shake, the shake switched off
RunRecords == {Record(690, 0, 45, 0, 0, 0), Record(690, 0, 0, 0, 0, 0)}

RunConfigs ==
    {NoConfig} \cup
    {[exists |-> TRUE,
      daily_meals |-> <<[name |-> "shake", enabled |-> e, calories |-> 160,
                         protein_g |-> 30]>>] : e \in BOOLEAN}

\* day records of the activity payload of the daily sync: steps counted,
\* steps 0, no steps; a distance of 0 and no calories
DailyRecords ==
    [date : {1}, steps : StepSamples, distance : {0},
     calories : {MissingField}]

\* m.get(k, default)
Get(m, k, default) == IF k \in DOMAIN m THEN m[k] ELSE default

\* load_daily_constants(): [] without the file, else the entries of
\* daily_meals with m.get('enabled', True)
load_daily_constants(file) ==
    IF ~file.exists THEN <<>>
    ELSE SelectSeq(file.daily_meals, LAMBDA m : Get(m, "enabled", TRUE))

\* combined[k] += c.get(k, 0) for the five fields
AddMeal(r, c) ==
    [r EXCEPT !.calories = @ + Get(c, "calories", 0),
              !.protein_g = @ + Get(c, "protein_g", 0),
              !.carbs_g = @ + Get(c, "carbs_g", 0),
              !.fat_g = @ + Get(c, "fat_g", 0),
              !.sodium_mg = @ + Get(c, "sodium_mg", 0)]

RECURSIVE AddMeals(_, _)
AddMeals(r, cs) ==
    IF cs = <<>> THEN r ELSE AddMeals(AddMeal(r, Head(cs)), Tail(cs))

\* (mutant) without the copy: the additions go to the caller's record
combine_in_place(n, cs) ==
    [nutrition |-> AddMeals(n, cs), combined |-> AddMeals(n, cs)]

\* combine_with_constants(nutrition, constants): the caller's record after
\* the call, and the record returned
combine_with_constants(n, cs) ==
    [nutrition |-> n, combined |-> AddMeals(n, cs)]

\* the categories of the list measurements: CATEGORY_CALORIES (18),
\* CATEGORY_EXERCISE (22), CATEGORY_PROTEIN (19), CATEGORY_CARBS (20),
\* CATEGORY_FAT (21) and the resolved CATEGORY_SODIUM
measurements(c) ==
    <<[cat |-> <<"Daily Calories", "kcal">>, value |-> c.calories],
      [cat |-> <<"MFP Exercise Calories", "kcal">>,
       value |-> c.exercise_cals],
      [cat |-> <<"Daily Protein", "g">>, value |-> c.protein_g],
      [cat |-> <<"Daily Carbs", "g">>, value |-> c.carbs_g],
      [cat |-> <<"Daily Fat", "g">>, value |-> c.fat_g],
      [cat |-> <<"Daily Sodium", "mg">>, value |-> c.sodium_mg]>>

\* print(f"... {c['name']}: {c['calories']} kcal") for c in constants
Printable(cs) ==
    \A i \in 1..Len(cs) : {"name", "calories"} \subseteq DOMAIN cs[i]

\* constants = load_daily_constants(), printed; nutrition = the record
NutritionLoad(records, files) ==
    \E r \in records, f \in files :
        /\ npc \in {"idle", "returned", "aborted"}
        /\ config' = f
        /\ given' = r
        /\ nutrition' = r
        /\ constants' = load_daily_constants(f)
        /\ combined' = r
        /\ nidx' = 0
        /\ nposted' = {}
        /\ nclean' = TRUE
        /\ nempty' = (points = {})
        /\ nsecond' = /\ npc = "returned"
                       /\ r = given
                       /\ f = config
                       /\ nempty
                       /\ nclean
        /\ npc' = IF Printable(load_daily_constants(f))
                  THEN "loaded" ELSE "aborted"
        /\ UNCHANGED points

\* if constants: combined = combine_with_constants(nutrition, constants)
\* else: combined = nutrition
NutritionCombine ==
    /\ npc = "loaded"
    /\ IF constants # <<>>
       THEN LET c == combine_with_constants(nutrition, constants)
            IN  nutrition' = c.nutrition /\ combined' = c.combined
       ELSE nutrition' = nutrition /\ combined' = nutrition
    /\ nidx' = 1
    /\ npc' = "post"
    /\ UNCHANGED <<points, config, given, constants, nposted, nclean, nempty,
                   nsecond>>

\* (mutant) no value is passed over
SkippedNever(v) == FALSE

\* if value == 0: continue
Skipped(v) == v = 0

\* one turn of `for category_id, value, name in measurements`
NutritionPost ==
    /\ npc = "post"
    /\ nidx <= Len(measurements(combined))
    /\ LET m == measurements(combined)[nidx]
           r == [res |-> "measurement", cat |-> m.cat, date |-> combined.date,
                 value |-> m.value]
       IN  IF Skipped(m.value)
           THEN /\ nidx' = nidx + 1
                /\ UNCHANGED <<points, npc, nposted, nclean>>
           ELSE \E o \in ActivityOutcomes, applied \in BOOLEAN :
                  \E eid \in IF o = "lookup_failed" \/ Matching(r) = {}
                              THEN {0} ELSE {p.id : p \in Matching(r)} :
                    /\ o \in {"ok", "lookup_failed"} => applied
                    /\ o = "rejected" => ~applied
                    /\ (applied /\ eid = 0) => Cardinality(points) < MaxRows
                    /\ points' = IF applied THEN Applied(r, eid) ELSE points
                    /\ nposted' = nposted \cup {m}
                    /\ nclean' = (nclean /\ o = "ok")
                    /\ nidx' = nidx + 1
                    /\ npc' = IF UpsertRaises("daily_health_sync", o)
                              THEN "aborted" ELSE npc
    /\ UNCHANGED <<config, given, nutrition, constants, combined, nempty,
                   nsecond>>

\* the list is exhausted: return True or False
NutritionReturn ==
    /\ npc = "post"
    /\ nidx > Len(measurements(combined))
    /\ npc' = "returned"
    /\ UNCHANGED <<points, config, given, nutrition, constants, combined, nidx,
                   nposted, nclean, nempty, nsecond>>

NutritionQuiet ==
    /\ npc = "idle"
    /\ config = NoConfig
    /\ given = Record(0, 0, 0, 0, 0, 0)
    /\ nutrition = Record(0, 0, 0, 0, 0, 0)
    /\ constants = <<>>
    /\ combined = Record(0, 0, 0, 0, 0, 0)
    /\ nidx = 0
    /\ nposted = {}
    /\ nclean = TRUE
    /\ nempty = TRUE
    /\ nsecond = FALSE

\* ------------------------------------------------------------------------
\* Decoding of one sample of a measure group: the head of the body of
\* `for m in measures` in backfill_withings and sync_withings
\* ------------------------------------------------------------------------
\* fixed-point unit of the decoded values: thousandths
Milli == 1000

\* no value is bound, no write was issued
NoValue == -1

\* the samples of a payload: a key that is missing or null is not in the
\* record.  Raw values m["value"], exponents m["unit"], and the types fat
\* ratio (6), bone mass (88) and height (4)
Samples ==
    LET raw == {0, 7, 712, 60200}
        expo == {-3, -2, -1, 0, 1}
        types == {6, 88, 4}
    IN  [type : types, value : raw, unit : expo]
        \cup [type : types, value : raw]
        \cup [type : types, unit : expo]
        \cup [type : types]

\* m.get(k) is not None
HasKey(m, k) == k \in DOMAIN m

RECURSIVE Pow10(_)
Pow10(n) == IF n = 0 THEN 1 ELSE 10 * Pow10(n - 1)

\* (mutant) the exponent is taken for a number of decimal places whatever
\* its sign
DecodeUnsigned(raw, expo) ==
    IF expo >= 0 THEN (raw * Milli) \div Pow10(expo)
    ELSE (raw * Milli) \div Pow10(-expo)

\* value = float(raw) * (10 ** int(expo)), in thousandths
Decode(raw, expo) ==
    IF expo >= 0 THEN raw * Pow10(expo) * Milli
    ELSE (raw * Milli) \div Pow10(-expo)

\* mtype, raw, expo = m.get(...); if raw is None or expo is None: continue;
\* value = float(raw) * (10 ** int(expo))
MeasureRead ==
    \E s \in PostScripts, m \in Samples :
        /\ dpc \in {"idle", "skipped", "posted", "passed"}
        /\ dscript' = s
        /\ dm' = m
        /\ dwritten' = NoValue
        /\ IF ~HasKey(m, "value") \/ ~HasKey(m, "unit")
           THEN dpc' = "skipped" /\ dvalue' = NoValue
           ELSE dpc' = "decoded" /\ dvalue' = Decode(m.value, m.unit)

\* elif mtype == 6 / elif mtype == 88:
\* wger_post_measurement(date, cat, round(value, 2), ...)
MeasurePost ==
    /\ dpc = "decoded"
    /\ dm.type \in {6, 88}
    /\ dwritten' = RoundDiv(dvalue, 10)
    /\ dpc' = "posted"
    /\ UNCHANGED <<dscript, dm, dvalue>>

\* a type code without a branch: the next sample
MeasurePass ==
    /\ dpc = "decoded"
    /\ dm.type \notin {6, 88}
    /\ dpc' = "passed"
    /\ UNCHANGED <<dscript, dm, dvalue, dwritten>>

DecodeQuiet ==
    /\ dscript = "backfill_all_data"
    /\ dpc = "idle"
    /\ dm = [type |-> 4]
    /\ dvalue = NoValue
    /\ dwritten = NoValue

\* ------------------------------------------------------------------------
\* Claims about the upsert engine
\* ------------------------------------------------------------------------
RowsOfKey(r) ==
    {p \in points : p.res = r.res /\ p.cat = r.cat /\ p.date = r.date}

\* C1: when an upsert is run twice in a row with the same arguments, every
\* lookup and write call of both runs succeeds and the destination held no
\* row for the key before the first run, then the first run reports
\* "Posted" (created), the second "Updated", and the destination holds
\* exactly one row for the key; for measurements and weight entries alike.
C1_IdempotentRerun ==
    (upc = "done" /\ first # "none" /\ clean)
        => /\ first = "Posted"
           /\ result = Returned(TRUE, "Updated", 200)
           /\ Cardinality(RowsOfKey(req)) = 1
           /\ \A p \in RowsOfKey(req) : p.value = req.value

C1_Witness ==
    /\ upc = "done"
    /\ first = "Posted"
    /\ clean
    /\ result.action = "Updated"
    /\ req.res = "weightentry"

\* C2: the destination never holds two measurement rows for the same
\* (date, category), whatever the outcome of each lookup and write call.
C2_UniquePerKey ==
    \A p, q \in points :
        (p.res = "measurement" /\ q.res = "measurement"
         /\ p.cat = q.cat /\ p.date = q.date) => p = q

\* C34: one upsert call increases the number of points of the destination
\* by at most one, whatever the outcomes of its lookup and of its write
\* attempts: an upsert that began with no row for its key (so that every
\* row of the key is one it added) never leaves more than one.
C34_BoundedGrowth ==
    (upc # "idle" /\ absent) => Cardinality(Matching(req)) <= 1

\* C10: when every create/update call of an upsert times out, the upsert
\* issues exactly 3 write attempts and then returns a Timeout failure; no
\* upsert ever issues a 4th write attempt.
C10_RetryBound ==
    /\ writes <= 3
    /\ (upc = "done" /\ writes > 0 /\ timeouts = writes)
          => (writes = 3 /\ result = Returned(FALSE, "Timeout", 0))

\* C11: when a create/update call is answered with a non-success status,
\* the upsert has returned: it issues no further write attempt (the call
\* was its last, preceded only by timed-out attempts) and its result is a
\* failure carrying the status the destination answered.
C11_NoRetryOnRejection ==
    answered \notin {0, 200, 201} =>
        /\ upc = "done"
        /\ writes = timeouts + 1
        /\ result = Returned(FALSE, "Failed", answered)

C11_Witness ==
    /\ upc = "done"
    /\ answered = 500
    /\ HasRetryLoop(uscript)
    /\ timeouts = 1
    /\ writes = 2
    /\ result.status = 500

\* C12: when the lookup of an upsert fails, the failure is not propagated:
\* the upsert goes on to the write with no existing id, every write call
\* it issues is a create (POST), and a successful upsert reports "Posted".
C12_LookupFailureCreates ==
    lookup = "failed" =>
        /\ upc \in {"write", "done"}
        /\ existing_id = 0
        /\ writes = 0 => (upc = "write" /\ result = NoResult)
        /\ writes > 0 => method = "POST"
        /\ (upc = "done" /\ result.success)
              => /\ result.action = "Posted"
                 /\ answered = 201
                 /\ \E p \in RowsOfKey(req) : p.value = req.value

C12_Witness ==
    /\ lookup = "failed"
    /\ ~absent
    /\ upc = "done"
    /\ method = "POST"
    /\ result = Returned(TRUE, "Posted", 200)
    /\ Cardinality(RowsOfKey(req)) = 2

\* the audit lines of the running upsert
AuditLines ==
    IF uscript \in LogScripts THEN debug_file[uscript].lines ELSE <<>>

\* the lines that record the outcome of one write attempt
AttemptLines ==
    {i \in 1..Len(AuditLines) :
        AuditLines[i].kind \in {"Posted", "Updated", "HTTP", "TIMEOUT", "EXCEPTION"}}

\* C13: every write attempt of an upsert, of a measurement or of a weight
\* entry, has an audit-log record: the log holds the upsert's target (date,
\* category, value) and one outcome line per attempt issued.
C13_AuditComplete ==
    writes > 0 =>
        /\ AuditLines # <<>>
        /\ AuditLines[1] = Line("POST", req, 0)
        /\ Cardinality(AttemptLines) = writes

IsPrefix(a, b) == Len(a) <= Len(b) /\ SubSeq(b, 1, Len(a)) = a

\* the step keeps every line of log file f, and at most appends to it
KeepsLines(f) ==
    \/ /\ debug_file'[f].earlier = debug_file[f].earlier
       /\ IsPrefix(debug_file[f].lines, debug_file'[f].lines)
    \/ /\ debug_file[f] # EmptyLog
       /\ debug_file'[f].earlier

LookupReturnedPoint == lookup = "ok" /\ ~absent

\* C25: the write of an upsert is an update (PUT), addressed to the id of
\* a point its lookup returned, if and only if the lookup returned at least
\* one point, and a create (POST) otherwise; a successful upsert reports
\* "Updated" in the first case and "Posted" in the second; and an update
\* leaves the number of points of the destination as it was.
C25_UpdateVersusCreate ==
    /\ [](writes > 0 =>
            /\ method = "PUT" <=> LookupReturnedPoint
            /\ method = "POST" <=> ~LookupReturnedPoint
            /\ method = "PUT" =>
                  \E p \in Matching(req) : p.id = existing_id
            /\ result.success =>
                  result.action =
                      (IF LookupReturnedPoint THEN "Updated" ELSE "Posted"))
    /\ [][(writes' = writes + 1 /\ method' = "PUT")
            => Cardinality(points') = Cardinality(points)]_vars

\* an update and a create have both succeeded: the destination holds a
\* point, and the upsert that found it has updated it
C25_Witness ==
    /\ upc = "done"
    /\ uscript = "repost_sleep_data"
    /\ method = "PUT"
    /\ result = Returned(TRUE, "Updated", 200)
    /\ Cardinality(points) = 1
    /\ \E p \in points : p.id = existing_id /\ p.value = req.value

NoWriteForFailedCategory ==
    \A c \in CatNames : wcat[c] = "failed" => ~cat_written[c]

\* C16: when the creation of a category fails, no measurement of that
\* category is written, and the run is not aborted: it goes on to post the
\* metrics that do not depend on that category.
C16_CategoryFailureScope ==
    \A c \in CatNames :
        wcat[c] = "failed" => (~cat_written[c] /\ wpc # "aborted")

\* C18: when the upsert of a point ends in a timeout (after its retries)
\* or in a rejection, the run is not aborted: it goes on to the remaining
\* points of the payload.
C18_PointIsolation ==
    last_point \in {"timeout", "rejected"} => wpc # "aborted"

\* C20: for each calendar day the destination takes at most one weight
\* write of a run, and that write carries the first weight sample in range
\* of that day in the order of the payload.
C20_OneWeightPerDay ==
    \A d \in Days :
        /\ weight_writes[d] <= 1
        /\ weight_writes[d] = 1 => last_written[d] = first_valid[d]

\* the range the claim gives for a weight: 30 to 350 pounds, both included
C21_InBounds(lb) == 30 * Scale <= lb /\ lb <= 350 * Scale

\* C21: a weight write is attempted only for a decoded weight of 30 to 350
\* pounds, and a sample in that range is written when the group has not
\* posted a weight yet; the test itself accepts exactly 30.0 and exactly
\* 350.0 pounds and rejects the values just outside.
C21_WeightBounds ==
    /\ last_measure.mtype = 1 =>
          /\ last_measure.wrote => C21_InBounds(last_measure.lb)
          /\ (C21_InBounds(last_measure.lb) /\ ~last_measure.before)
                => last_measure.wrote
    /\ \A d \in Days : last_written[d] # 0 => C21_InBounds(last_written[d])
    /\ InRange(30 * Scale) /\ InRange(350 * Scale)
    /\ ~InRange(30 * Scale - 1) /\ ~InRange(350 * Scale + 1)

\* 13 kg (28.66 lb) was passed over and 158 kg (348.33 lb) written
C21_Witness ==
    /\ last_measure = Measure(1, ToPounds(158), FALSE, TRUE)
    /\ last_written[gdate] = ToPounds(158)
    /\ wgroups = 2
    /\ first_valid[gdate] = ToPounds(158)

\* a weight above 350 pounds (159 kg, 350.53 lb) is never written
C21_TooHeavySkipped ==
    (last_measure.mtype = 1 /\ last_measure.lb = ToPounds(159))
        => ~last_measure.wrote

BodyComposition == {6, 76, 77, 88}

\* C26: every body composition sample (type 6, 76, 77, 88) of a group with
\* a date yields an upsert of its own, whether or not a weight sample came
\* before it in the group and was posted.
C26_BodyCompositionIndependent ==
    last_measure.mtype \in BodyComposition => last_measure.wrote

\* the samples of type 6, 76 and 88 do yield their upsert, and so does a
\* positive sample of type 77 that follows a posted weight
C26_AllButHydration ==
    /\ last_measure.mtype \in {6, 76, 88} => last_measure.wrote
    /\ last_measure.mtype = 77 => (last_measure.wrote => last_measure.before)

\* C27: a measure whose type is none of 1, 6, 76, 77, 88 causes no write
\* and no error: the step that reads it changes nothing but the position
\* in the group, and the loop goes on to the samples that follow.
C27_UnknownTypes ==
    /\ [](last_measure.mtype \in OtherTypes
            => (~last_measure.wrote /\ wpc # "aborted"))
    /\ [][(wmeasures' = wmeasures + 1 /\ last_measure'.mtype \in OtherTypes)
            => /\ wpc' = wpc
               /\ last_point' = last_point
               /\ weight_posted' = weight_posted
               /\ cat_written' = cat_written
               /\ weight_writes' = weight_writes
               /\ last_written' = last_written]_vars

\* after a measure of unknown type in the first group, a body fat sample
\* of the second group has been posted
C27_Witness ==
    /\ other_seen
    /\ wgroups = 2
    /\ last_measure = Measure(6, 0, FALSE, TRUE)
    /\ last_point = "ok"
    /\ wpc = "groups"

\* ------------------------------------------------------------------------
\* Claims about main
\* ------------------------------------------------------------------------
SourcesOfRun ==
    {SourceOrder(mscript, margs)[i] :
        i \in 1..Len(SourceOrder(mscript, margs))}

\* C17: whatever happens while one source is synchronised, every other
\* source of the run is still attempted: when the process has ended, the
\* function of each of its sources has been called.
C17_SourceIsolation ==
    mpc = "exited" => SourcesOfRun \subseteq attempted

\* the three sources of daily_health_sync.py are always attempted
DailySourcesAttempted ==
    (mpc = "exited" /\ mscript = "daily_health_sync")
        => SourcesOfRun \subseteq attempted

AllSucceeded == \A src \in SourcesOfRun : fate[src] = "ok"

NoneSucceeded == \A src \in SourcesOfRun : fate[src] # "ok"

\* C19: the exit status is success (0) exactly when every source of the
\* run succeeded, and a run in which some but not all of them succeeded
\* ends with the summary of a partial sync.
C19_ExitStatus ==
    mpc = "exited" =>
        /\ exit_status = 0 <=> AllSucceeded
        /\ (~AllSucceeded /\ ~NoneSucceeded) => summary = "partial"

\* ------------------------------------------------------------------------
\* Claims about the raw payload cache
\* ------------------------------------------------------------------------
FetchPhases == {"token", "activity", "weight", "sleepfetch"}

SnapshotExists ==
    IF rsource = "withings"
    THEN withings_cache[rrange] # NoFile
    ELSE sleep_cache[rrange] # NoSleepFile

\* the payload the run works on is the one it read from the snapshot
UsesLoaded ==
    IF rsource = "withings"
    THEN activity = loaded.activity /\ weight_data = loaded.weight
    ELSE all_data = loaded.sleep_data

\* C3: a run that finds the snapshot file of its (source, range) issues no
\* provider call (no token refresh, no fetch) and works on exactly the
\* payload stored in the snapshot.
C3_CacheHit ==
    (rpc # "idle" /\ existed)
        => /\ provider_calls = 0
           /\ rpc \notin FetchPhases
           /\ UsesLoaded

\* C4: a snapshot file, once written, is never rewritten, truncated or
\* deleted: its content is the same in every later state.
C4_SnapshotImmutable ==
    [][\A r \in Ranges :
          /\ withings_cache[r] # NoFile => withings_cache'[r] = withings_cache[r]
          /\ sleep_cache[r] # NoSleepFile => sleep_cache'[r] = sleep_cache[r]]_vars

\* the snapshot is on disk whenever the run is about to issue, or has
\* issued, a destination call
SavedBeforeDestination ==
    (rpc = "post" \/ dest_called) => SnapshotExists

\* C5: on a cache miss the payload is written to the snapshot file before
\* any destination call of the run; and when the run then fails while
\* posting, the rerun of the same range issues no provider call.
C5_PersistBeforeUse ==
    /\ SavedBeforeDestination
    /\ rerun => (provider_calls = 0 /\ rpc \notin FetchPhases)

\* C35: a Withings snapshot file, whenever it exists, holds an activity
\* payload and a weight payload, and the run that wrote it fetched both
\* itself; when one of the two fetches fails the run writes no snapshot:
\* the file is what the run found (missing, if it was missing), so the
\* payload that was fetched is lost and the next run fetches again.
C35_SnapshotAllOrNothing ==
    /\ \A r \in Ranges :
          withings_cache[r] # NoFile =>
              /\ withings_cache[r].activity # NonePayload
              /\ withings_cache[r].weight # NonePayload
    /\ (rsource = "withings" /\ rpc # "idle"
          /\ withings_cache[rrange] # loaded) =>
              /\ fetched = {"activity", "weight"}
              /\ withings_cache[rrange].activity = activity
              /\ withings_cache[rrange].weight = weight_data
    /\ (rsource = "withings" /\ outcome = "fetch_failed") =>
              /\ fetched # {"activity", "weight"}
              /\ withings_cache[rrange] = loaded
              /\ (~existed => MustFetch(NonePayload, NonePayload)
                               /\ withings_cache[rrange] = NoFile)

\* the snapshot of one range holds both payloads; the run of the other
\* range fetched the activity, failed on the weight and left no file
C35_Witness ==
    /\ rsource = "withings"
    /\ outcome = "fetch_failed"
    /\ fetched = {"activity"}
    /\ Truthy(activity)
    /\ withings_cache[rrange] = NoFile
    /\ \E r \in Ranges : /\ withings_cache[r] # NoFile
                         /\ Truthy(withings_cache[r].activity)
                         /\ Truthy(withings_cache[r].weight)

Called == tpc # "idle" /\ tokens # NoTokens

Remaining == tokens.obtained_at + tokens.expires_in - checked_at

\* C6: with a stored credential, the provider refresh is called if and only
\* if now > obtained_at + max(expires_in - 60, 0); a credential with
\* expires_in = 3600 obtained at T is used unrefreshed at T+3539 and is
\* refreshed at T+3541.
C6_RefreshTiming ==
    Called =>
        /\ refresh_called <=>
              (checked_at > tokens.obtained_at
                  + (IF tokens.expires_in > 60 THEN tokens.expires_in - 60 ELSE 0))
        /\ (tokens.expires_in = 3600 /\ checked_at = tokens.obtained_at + 3539)
              => (~refresh_called /\ tresult = ReturnToken(tokens))
        /\ (tokens.expires_in = 3600 /\ checked_at = tokens.obtained_at + 3541)
              => refresh_called

C6_Witness ==
    /\ tpc = "refresh"
    /\ tokens.expires_in = 3600
    /\ checked_at = tokens.obtained_at + 3541
    /\ refresh_called

\* C7 as claimed: the stored access token is never returned unrefreshed when
\* at most 60 seconds remain before its expiry, whatever expires_in is.
C7_ExpiryMargin ==
    (Called /\ ~refresh_called /\ tresult.kind = "token") => Remaining > 60

\* C7 as amended: the stored access token is never returned unrefreshed when
\* fewer than 60 seconds remain, for a credential with expires_in >= 60; a
\* credential with expires_in < 60 is returned unrefreshed only at a time
\* not later than obtained_at.
C7_ExpiryMarginAmended ==
    (Called /\ ~refresh_called /\ tresult.kind = "token")
        => IF tokens.expires_in >= 60
           THEN Remaining >= 60
           ELSE checked_at <= tokens.obtained_at

C7_Witness ==
    /\ tpc = "done"
    /\ tokens.expires_in = 3600
    /\ Remaining = 60
    /\ ~refresh_called
    /\ tresult = ReturnToken(tokens)

Failure == {"exit", "raise"}

\* C8 as claimed: when the provider rejects the refresh token the call ends
\* in failure and the persisted credential is what it was before the call.
C8_RefreshFailure ==
    (tpc = "done" /\ rejected # "no")
        => (tresult.kind \in Failure /\ token_file = tokens)

\* C8 as amended: after a rejected refresh the persisted credential is what
\* it was before the call and the call ends in failure, except in
\* daily_health_sync.py when the OAuth authorization it falls back to
\* succeeds: then the new grant is persisted and its access token returned.
C8_RefreshFailureAmended ==
    rejected # "no" =>
        /\ tpc \in {"oauth", "done"}
        /\ tpc = "oauth" => (tscript = "daily_health_sync" /\ token_file = tokens)
        /\ (tpc = "done" /\ granted = NoGrant)
              => (tresult.kind \in Failure /\ token_file = tokens)
        /\ (tpc = "done" /\ granted # NoGrant)
              => /\ tscript = "daily_health_sync"
                 /\ rejected = "status"
                 /\ tresult.kind = "token"
                 /\ token_file.access_token = granted.body.access_token

C8_Witness ==
    /\ tpc = "done"
    /\ rejected = "status"
    /\ tscript = "backfill_all_data"
    /\ tresult = SysExit
    /\ token_file = tokens
    /\ tokens # NoTokens

\* C9: when a refresh or an initial grant succeeds, the credential the
\* provider sent is persisted with obtained_at equal to the time of that
\* response, and the token returned is the persisted access token.
C9_RefreshSuccess ==
    granted # NoGrant =>
        /\ tpc = "done"
        /\ token_file =
              [access_token |-> granted.body.access_token,
               refresh_token |-> granted.body.refresh_token,
               obtained_at |-> granted.at,
               expires_in |-> granted.body.expires_in]
        /\ tresult = [kind |-> "token", token |-> token_file.access_token]

C9_Witness ==
    /\ granted # NoGrant
    /\ refresh_called
    /\ rejected = "no"
    /\ granted.at > checked_at
    /\ tresult.kind = "token"
    /\ token_file.obtained_at = granted.at

\* the credential loaded by the call has not reached its refresh time
StillValid ==
    checked_at <= tokens.obtained_at
                    + (IF tokens.expires_in > 60 THEN tokens.expires_in - 60 ELSE 0)

\* C28: the persisted credential changes only in the step in which a
\* refresh or an initial grant succeeds, and then to the credential the
\* provider sent; a call that finds a credential still valid makes no
\* provider call (no refresh, no authorization) and leaves the file as it
\* was.
C28_CredentialFrame ==
    /\ [][token_file' # token_file
            => /\ tpc \in {"refresh", "oauth"}
               /\ granted = NoGrant /\ granted' # NoGrant
               /\ token_file' = Stamped(granted'.body, granted'.at)]_vars
    /\ []((Called /\ StillValid)
            => /\ tpc = "done"
               /\ ~refresh_called
               /\ granted = NoGrant
               /\ token_file = tokens
               /\ tresult = ReturnToken(tokens))

\* a call on a valid credential has returned its token, the file untouched,
\* after an earlier call had refreshed it
C28_Witness ==
    /\ Called /\ StillValid
    /\ tpc = "done"
    /\ token_file = tokens
    /\ tokens.access_token = 2
    /\ issued = 2
    /\ checked_at > tokens.obtained_at

\* ------------------------------------------------------------------------
\* Claims about the day-by-day sleep fetch
\* ------------------------------------------------------------------------
\* the calendar days of [start_date, end_date], ascending
RangeDays == [i \in 1..(end_date.day - start_date.day + 1) |->
                 start_date.day + i - 1]

\* C36: a per-day request that fails (404 or another error) counts as a
\* day without data and does not end the fetch: the fetch still requests
\* every day of the range and its snapshot is written without the failed
\* days; a run that finds the snapshot replays it without any request, so
\* requests are only issued for a range that has no snapshot and the days
\* that failed stay out of the snapshot.
C36_FailedDaysFrozen ==
    /\ (fresult = "payload" /\ Leq(start_date, end_date)) =>
          /\ requested = RangeDays
          /\ failed \cap all_sleep_data = {}
          /\ snapshots[FileOf(start_date, end_date)] =
                [exists |-> TRUE, days |-> all_sleep_data]
          /\ frozen[FileOf(start_date, end_date)] = failed
    /\ fresult = "cached" =>
          /\ requested = <<>>
          /\ snapshots[FileOf(start_date, end_date)] =
                [exists |-> TRUE, days |-> all_sleep_data]
    /\ fpc = "loop" => ~snapshots[FileOf(start_date, end_date)].exists
    /\ \A f \in SleepFiles : frozen[f] \cap snapshots[f].days = {}

\* the snapshot of a range of three days whose middle day had failed is
\* replayed: no request, the middle day still missing
C36_Witness ==
    /\ fresult = "cached"
    /\ FileOf(start_date, end_date) = <<Today - 2, Today>>
    /\ frozen[<<Today - 2, Today>>] = {Today - 1}
    /\ all_sleep_data = {Today - 2, Today}
    /\ requested = <<>>

\* C31: while the sleep provider is iterated day by day a pause occurs
\* between any two consecutive per-day requests: in the order of what the
\* loop did, a request that is not the last event is followed by a pause,
\* never by another request, and there are as many requests as days asked.
C31_RateLimitPause ==
    /\ \A i \in 1..(Len(events) - 1) :
          events[i] = "request" => events[i + 1] = "pause"
    /\ Len(SelectSeq(events, LAMBDA e : e = "request")) = Len(requested)

\* three per-day requests were issued, a pause after each
C31_Witness ==
    /\ Len(requested) = 3
    /\ events = <<"request", "pause", "request", "pause", "request", "pause">>

\* C30: for start <= end the fetch issues one request per calendar day of
\* [start, end], in ascending order of the days, none for a day outside,
\* and then returns: at any time the requests issued are the first days of
\* the range, at the return they are all of them, and a fetch that has
\* entered the loop returns.
C30_SleepRangeFetch ==
    /\ [](Leq(start_date, end_date) =>
            /\ Len(requested) <= Len(RangeDays)
            /\ \A i \in 1..Len(requested) : requested[i] = RangeDays[i]
            /\ fresult = "payload" => requested = RangeDays)
    /\ (fpc = "loop") ~> (fpc = "returned")

\* the three days of a range fetched, in order, the middle one without data
C30_Witness ==
    /\ fresult = "payload"
    /\ start_date = DateTime(Today - 2, 1)
    /\ end_date = DateTime(Today, 1)
    /\ requested = <<Today - 2, Today - 1, Today>>
    /\ all_sleep_data = {Today - 2, Today}

\* ------------------------------------------------------------------------
\* Claims about the activity loop
\* ------------------------------------------------------------------------
\* every call of every upsert of the run succeeded
AllCallsOk == \A i \in 1..Len(posted) : posted[i].outcome = "ok"

ActionsOfRun == {posted[i].action : i \in 1..Len(posted)}

\* C22: a day record with a date and positive steps, distance and calories
\* yields exactly three upserts: the steps in ksteps, the distance in km and
\* the calories in kcal, each rounded to two decimals, under three distinct
\* categories ({steps: 8234, distance: 5123, calories: 412.7} gives 8.23,
\* 5.12 and 412.7); when all their calls succeed, a run on an empty
\* destination creates all three, and the identical run after it updates
\* all three and adds no point.
C22_EndToEndActivity ==
    (/\ apc = "returned"
     /\ aday.date # 0
     /\ aday.steps > 0 /\ aday.distance > 0 /\ aday.calories > 0)
        => /\ Len(posted) = 3
           /\ posted[1].cat = <<"Steps", "ksteps">>
           /\ posted[2].cat = <<"Distance", "km">>
           /\ posted[3].cat = <<"Calories", "kcal">>
           /\ aday.steps = 8234 => posted[1].value = 823
           /\ aday.distance = 5123 => posted[2].value = 512
           /\ aday.calories = 412704 => posted[3].value = 41270
           /\ (AllCallsOk /\ empty_start)
                 => (ActionsOfRun = {"Posted"} /\ Cardinality(points) = 3)
           /\ (AllCallsOk /\ second)
                 => /\ ActionsOfRun = {"Updated"}
                    /\ Cardinality(points) = rows_before
                    /\ rows_before = 3

\* the identical second run has updated its three points
C22_Witness ==
    /\ apc = "returned"
    /\ second
    /\ AllCallsOk
    /\ Len(posted) = 3
    /\ aday = [date |-> 1, steps |-> 8234, distance |-> 5123,
               calories |-> 412704]
    /\ ActionsOfRun = {"Updated"}
    /\ Cardinality(points) = 3

\* ------------------------------------------------------------------------
\* Claims about two concurrent processes
\* ------------------------------------------------------------------------
RaceKeyRows == {row \in points : row.res = "measurement" /\ row.cat = 1
                                  /\ row.date = 1}

\* C23: the write of a process is decided by what its own lookup found,
\* not by what the destination holds when the write arrives: a process
\* whose lookup found no point issues a create.  So when the two lookups
\* both precede the two writes, both processes create, and the key ends
\* with two points: the points of the key are as many as the creates.
C23_DuplicateRace ==
    /\ \A p \in Procs :
          paction[p] \in {"Posted", "Updated"}
              => paction[p] = (IF peid[p] = 0 THEN "Posted" ELSE "Updated")
    /\ Cardinality(RaceKeyRows) = creates
    /\ (\A p \in Procs : ppc[p] = "done" /\ paction[p] = "Posted")
          => Cardinality(RaceKeyRows) >= 2

\* both lookups found nothing, both processes created: two points, one key
C23_Witness ==
    /\ \A p \in Procs :
          ppc[p] = "done" /\ peid[p] = 0 /\ paction[p] = "Posted"
    /\ creates = 2
    /\ Cardinality(RaceKeyRows) = 2

\* C24: a process sends the refresh token it loaded at the entry of the
\* call, even when the other process has exchanged it since; the provider
\* then rejects it, and the process exits, raises or falls back to a new
\* authorization: it never obtains a token from that refresh.  The
\* credential a process used for such a refresh is one the provider had
\* invalidated.
C24_TokenRefreshRace ==
    \A p \in Procs :
        /\ qsent[p] # 0 => qsent[p] = qtokens[p].refresh_token
        /\ qstale[p] =>
              /\ qtokens[p].refresh_token \in consumed
              /\ qpc[p] \in {"oauth", "save", "done"}
              /\ qscript[p] = "backfill_all_data"
                    => (qpc[p] = "done" /\ qresult[p] \in {SysExit, Raise})

\* both processes loaded the same expired credential; the first exchanged
\* its refresh token and saved the new credential, the second sent the
\* consumed refresh token, was rejected and exited
C24_Witness ==
    /\ qtokens[1] = qtokens[2]
    /\ qsent[1] = qsent[2] /\ qsent[1] # 0
    /\ qresult[1].kind = "token"
    /\ token_file.access_token = qresult[1].token
    /\ qstale[2]
    /\ qpc[2] = "done"
    /\ qresult[2] = SysExit

\* ------------------------------------------------------------------------
\* Claims about the decoding of a sample
\* ------------------------------------------------------------------------
\* C33: for a sample with a raw value and an exponent the value used for
\* normalization is raw * 10^exponent (712 with -1 is 71.2, 60200 with -2
\* is 602.00), and what is written is that value; a sample whose raw value
\* or exponent is missing is skipped: no value is bound, no write issued.
C33_ScaleDecoding ==
    /\ dpc \in {"decoded", "posted", "passed"} =>
          /\ HasKey(dm, "value") /\ HasKey(dm, "unit")
          /\ IF dm.unit >= 0
             THEN dvalue = dm.value * Pow10(dm.unit) * 1000
             ELSE dvalue * Pow10(-dm.unit) = dm.value * 1000
          /\ (dm.value = 712 /\ dm.unit = -1) => dvalue = 71200
          /\ (dm.value = 60200 /\ dm.unit = -2) => dvalue = 602000
    /\ dpc = "posted" => dwritten * 10 = dvalue - (dvalue % 10)
                          \/ dwritten * 10 = dvalue - (dvalue % 10) + 10
    /\ (dpc # "idle" /\ (~HasKey(dm, "value") \/ ~HasKey(dm, "unit"))) =>
          dpc = "skipped" /\ dvalue = NoValue /\ dwritten = NoValue

\* a bone mass sample of raw value 712 and exponent -1 was written as 71.2
C33_Witness ==
    /\ dpc = "posted"
    /\ dm = [type |-> 88, value |-> 712, unit |-> -1]
    /\ dvalue = 71200
    /\ dwritten = 7120

\* ------------------------------------------------------------------------
\* Claims about the nutrition sync
\* ------------------------------------------------------------------------
RECURSIVE SumOf(_, _)
SumOf(cs, k) ==
    IF cs = <<>> THEN 0 ELSE Get(Head(cs), k, 0) + SumOf(Tail(cs), k)

\* C32: for every record and every list of enabled constants, calories,
\* protein, carbs, fat and sodium of the combined record are the record's
\* value plus the sum of the field over the constants (a constant without
\* the field adds 0); date and exercise calories are those of the record,
\* the record passed in is not modified, and the constants are the
\* entries of the file that are not switched off.
C32_ConstantsAdditive ==
    npc \in {"post", "returned"} =>
        /\ \A k \in Macros : combined[k] = given[k] + SumOf(constants, k)
        /\ combined.date = given.date
        /\ combined.exercise_cals = given.exercise_cals
        /\ nutrition = given
        /\ \A i \in 1..Len(constants) :
              "enabled" \in DOMAIN constants[i] => constants[i].enabled
        /\ Len(constants) =
              Cardinality({i \in 1..Len(config.daily_meals) :
                  "enabled" \in DOMAIN config.daily_meals[i]
                      => config.daily_meals[i].enabled})

\* a record combined with a shake and a bar that has calories and protein
\* only
C32_Witness ==
    /\ npc = "post"
    /\ given = Record(690, 804, 45, 0, 20, 2300)
    /\ Len(config.daily_meals) = 2
    /\ Len(constants) = 2
    /\ constants[1].name = "shake"
    /\ constants[2].name = "bar"
    /\ combined = Record(1050, 804, 85, 5, 23, 2450)

\* the value each entry of the list measurements should carry: the
\* record's value, plus the constants once for the five fields added up
ExpectedValues ==
    <<given.calories + SumOf(constants, "calories"),
      given.exercise_cals,
      given.protein_g + SumOf(constants, "protein_g"),
      given.carbs_g + SumOf(constants, "carbs_g"),
      given.fat_g + SumOf(constants, "fat_g"),
      given.sodium_mg + SumOf(constants, "sodium_mg")>>

NutritionRows(i) ==
    {p \in points : /\ p.res = "measurement"
                    /\ p.cat = measurements(given)[i].cat
                    /\ p.date = given.date}

RowsOfCategory(c) == {p \in points : p.res = "measurement" /\ p.cat = c}

\* C37: an activity metric (steps, distance, calories) is upserted only if
\* it is present, not null and greater than 0, and a nutrition metric only
\* if it is not 0; the points of a category change only in the upsert of
\* a metric that passes this test, so that a run in which the metric is 0
\* or absent leaves the value written earlier as it is.
C37_WriteGuards ==
    /\ [](/\ \A j \in 1..Len(posted) :
               /\ posted[j].cat = <<"Steps", "ksteps">>
                     => (aday.steps # MissingField /\ aday.steps > 0)
               /\ posted[j].cat = <<"Distance", "km">>
                     => (aday.distance # MissingField /\ aday.distance > 0)
               /\ posted[j].cat = <<"Calories", "kcal">>
                     => (aday.calories # MissingField /\ aday.calories > 0)
          /\ \A m \in nposted : m.value # 0)
    /\ [][/\ RowsOfCategory(<<"Steps", "ksteps">>)'
               # RowsOfCategory(<<"Steps", "ksteps">>)
                 => (apc = "steps" /\ aday.steps # MissingField
                     /\ aday.steps > 0)
          /\ RowsOfCategory(<<"Distance", "km">>)'
               # RowsOfCategory(<<"Distance", "km">>)
                 => (apc = "distance" /\ aday.distance # MissingField
                     /\ aday.distance > 0)
          /\ RowsOfCategory(<<"Calories", "kcal">>)'
               # RowsOfCategory(<<"Calories", "kcal">>)
                 => (apc = "calories" /\ aday.calories # MissingField
                     /\ aday.calories > 0)
          /\ \A i \in 1..Len(ExpectedValues) :
               NutritionRows(i)' # NutritionRows(i)
                 => (npc = "post" /\ nidx = i /\ ExpectedValues[i] # 0)]_vars

\* steps and protein were written earlier; the nutrition run of a record
\* without protein has returned: only the calories were upserted and the
\* protein point still holds 45
C37_Witness ==
    /\ npc = "returned"
    /\ given = Record(690, 0, 0, 0, 0, 0)
    /\ constants = <<>>
    /\ {m.cat : m \in nposted} = {<<"Daily Calories", "kcal">>}
    /\ \E p \in points : p.cat = <<"Daily Protein", "g">> /\ p.value = 45
    /\ \E p \in points : p.cat = <<"Steps", "ksteps">> /\ p.value = 823

\* ------------------------------------------------------------------------
\* Specifications
\* ------------------------------------------------------------------------
\* the upsert engine against the destination tracker
Init ==
    /\ UpsertInit
    /\ TokenQuiet /\ token_file = NoTokens /\ now = 0 /\ issued = 0
    /\ CacheInit
    /\ CategoryQuiet /\ categories = <<>>
    /\ PostQuiet
    /\ MainQuiet
    /\ SleepQuiet
    /\ ActivityQuiet
    /\ UpsertRaceQuiet
    /\ TokenRaceQuiet
    /\ DecodeQuiet
    /\ NutritionQuiet

Next ==
    \/ LookupOk /\ UNCHANGED <<tvars, cvars, gvars, wvars, mvars, svars, avars, pvars, qvars, dvars, nvars>>
    \/ LookupFail /\ UNCHANGED <<tvars, cvars, gvars, wvars, mvars, svars, avars, pvars, qvars, dvars, nvars>>
    \/ WriteOk /\ UNCHANGED <<tvars, cvars, gvars, wvars, mvars, svars, avars, pvars, qvars, dvars, nvars>>
    \/ WriteRejected /\ UNCHANGED <<tvars, cvars, gvars, wvars, mvars, svars, avars, pvars, qvars, dvars, nvars>>
    \/ WriteTimeout /\ UNCHANGED <<tvars, cvars, gvars, wvars, mvars, svars, avars, pvars, qvars, dvars, nvars>>
    \/ WriteError /\ UNCHANGED <<tvars, cvars, gvars, wvars, mvars, svars, avars, pvars, qvars, dvars, nvars>>
    \/ ClearDebugLog /\ UNCHANGED <<tvars, cvars, gvars, wvars, mvars, svars, avars, pvars, qvars, dvars, nvars>>

Spec == Init /\ [][Next]_vars

\* the token store, with the clock running
TokenSpecInit ==
    /\ TokenInit /\ UpsertInit /\ CacheInit
    /\ CategoryQuiet /\ categories = <<>>
    /\ PostQuiet
    /\ MainQuiet
    /\ SleepQuiet
    /\ ActivityQuiet
    /\ UpsertRaceQuiet
    /\ TokenRaceQuiet
    /\ DecodeQuiet
    /\ NutritionQuiet

TokenSpecNext ==
    \/ get_withings_access_token /\ UNCHANGED <<uvars, cvars, gvars, wvars, mvars, svars, avars, pvars, qvars, dvars, nvars>>
    \/ RefreshOk /\ UNCHANGED <<uvars, cvars, gvars, wvars, mvars, svars, avars, pvars, qvars, dvars, nvars>>
    \/ RefreshRejected /\ UNCHANGED <<uvars, cvars, gvars, wvars, mvars, svars, avars, pvars, qvars, dvars, nvars>>
    \/ RefreshError /\ UNCHANGED <<uvars, cvars, gvars, wvars, mvars, svars, avars, pvars, qvars, dvars, nvars>>
    \/ OAuthOk /\ UNCHANGED <<uvars, cvars, gvars, wvars, mvars, svars, avars, pvars, qvars, dvars, nvars>>
    \/ OAuthFail /\ UNCHANGED <<uvars, cvars, gvars, wvars, mvars, svars, avars, pvars, qvars, dvars, nvars>>
    \/ Tick /\ UNCHANGED <<uvars, cvars, gvars, wvars, mvars, svars, avars, pvars, qvars, dvars, nvars>>

TokenSpec == TokenSpecInit /\ [][TokenSpecNext]_vars

\* backfill runs over the raw payload cache
CacheSpecInit ==
    /\ CacheInit /\ TokenInit /\ UpsertInit
    /\ CategoryQuiet /\ categories = <<>>
    /\ PostQuiet
    /\ MainQuiet
    /\ SleepQuiet
    /\ ActivityQuiet
    /\ UpsertRaceQuiet
    /\ TokenRaceQuiet
    /\ DecodeQuiet
    /\ NutritionQuiet

CacheSpecNext ==
    \/ WithingsBegin /\ UNCHANGED <<uvars, tvars, gvars, wvars, mvars, svars, avars, pvars, qvars, dvars, nvars>>
    \/ WithingsToken /\ UNCHANGED <<uvars, gvars, wvars, mvars, svars, avars, pvars, qvars, dvars, nvars>>
    \/ WithingsRefresh /\ UNCHANGED <<uvars, gvars, wvars, mvars, svars, avars, pvars, qvars, dvars, nvars>>
    \/ WithingsTokenDone /\ UNCHANGED <<uvars, gvars, wvars, mvars, svars, avars, pvars, qvars, dvars, nvars>>
    \/ FetchActivityOk /\ UNCHANGED <<uvars, tvars, gvars, wvars, mvars, svars, avars, pvars, qvars, dvars, nvars>>
    \/ FetchWeightOk /\ UNCHANGED <<uvars, tvars, gvars, wvars, mvars, svars, avars, pvars, qvars, dvars, nvars>>
    \/ FetchFailed /\ UNCHANGED <<uvars, tvars, gvars, wvars, mvars, svars, avars, pvars, qvars, dvars, nvars>>
    \/ SleepBegin /\ UNCHANGED <<uvars, tvars, gvars, wvars, mvars, svars, avars, pvars, qvars, dvars, nvars>>
    \/ SleepFetchOk /\ UNCHANGED <<uvars, tvars, gvars, wvars, mvars, svars, avars, pvars, qvars, dvars, nvars>>
    \/ SleepFetchFailed /\ UNCHANGED <<uvars, tvars, gvars, wvars, mvars, svars, avars, pvars, qvars, dvars, nvars>>
    \/ PostToWger /\ UNCHANGED <<uvars, tvars, gvars, wvars, mvars, svars, avars, pvars, qvars, dvars, nvars>>

CacheSpec == CacheSpecInit /\ [][CacheSpecNext]_vars

\* resolutions of categories, one after the other
CategorySpecInit ==
    /\ CategoryInit
    /\ UpsertInit
    /\ TokenQuiet /\ token_file = NoTokens /\ now = 0 /\ issued = 0
    /\ CacheInit
    /\ PostQuiet
    /\ MainQuiet
    /\ SleepQuiet
    /\ ActivityQuiet
    /\ UpsertRaceQuiet
    /\ TokenRaceQuiet
    /\ DecodeQuiet
    /\ NutritionQuiet

CategorySpecNext ==
    \/ ListOk /\ UNCHANGED <<uvars, tvars, cvars, wvars, mvars, svars, avars, pvars, qvars, dvars, nvars>>
    \/ ListFailed /\ UNCHANGED <<uvars, tvars, cvars, wvars, mvars, svars, avars, pvars, qvars, dvars, nvars>>
    \/ CreateOk /\ UNCHANGED <<uvars, tvars, cvars, wvars, mvars, svars, avars, pvars, qvars, dvars, nvars>>
    \/ CreateRejected /\ UNCHANGED <<uvars, tvars, cvars, wvars, mvars, svars, avars, pvars, qvars, dvars, nvars>>
    \/ CreateRaised /\ UNCHANGED <<uvars, tvars, cvars, wvars, mvars, svars, avars, pvars, qvars, dvars, nvars>>

CategorySpec == CategorySpecInit /\ [][CategorySpecNext]_vars

\* Withings runs posting their payload, one after the other
PostSpecInit ==
    /\ PostQuiet
    /\ UpsertInit
    /\ TokenQuiet /\ token_file = NoTokens /\ now = 0 /\ issued = 0
    /\ CacheInit
    /\ CategoryQuiet /\ categories = <<>>
    /\ MainQuiet
    /\ SleepQuiet
    /\ ActivityQuiet
    /\ UpsertRaceQuiet
    /\ TokenRaceQuiet
    /\ DecodeQuiet
    /\ NutritionQuiet

PostSpecNext ==
    \/ PostBegin /\ UNCHANGED <<uvars, tvars, cvars, gvars, mvars, svars, avars, pvars, qvars, dvars, nvars>>
    \/ ResolveOk /\ UNCHANGED <<uvars, tvars, cvars, gvars, mvars, svars, avars, pvars, qvars, dvars, nvars>>
    \/ ResolveFailed /\ UNCHANGED <<uvars, tvars, cvars, gvars, mvars, svars, avars, pvars, qvars, dvars, nvars>>
    \/ ActivityPoint /\ UNCHANGED <<uvars, tvars, cvars, gvars, mvars, svars, avars, pvars, qvars, dvars, nvars>>
    \/ ActivityEnd /\ UNCHANGED <<uvars, tvars, cvars, gvars, mvars, svars, avars, pvars, qvars, dvars, nvars>>
    \/ NextGroup /\ UNCHANGED <<uvars, tvars, cvars, gvars, mvars, svars, avars, pvars, qvars, dvars, nvars>>
    \/ WeightMeasure /\ UNCHANGED <<uvars, tvars, cvars, gvars, mvars, svars, avars, pvars, qvars, dvars, nvars>>
    \/ BodyFatMeasure /\ UNCHANGED <<uvars, tvars, cvars, gvars, mvars, svars, avars, pvars, qvars, dvars, nvars>>
    \/ MassMeasure /\ UNCHANGED <<uvars, tvars, cvars, gvars, mvars, svars, avars, pvars, qvars, dvars, nvars>>
    \/ HydrationMeasure /\ UNCHANGED <<uvars, tvars, cvars, gvars, mvars, svars, avars, pvars, qvars, dvars, nvars>>
    \/ OtherMeasure /\ UNCHANGED <<uvars, tvars, cvars, gvars, mvars, svars, avars, pvars, qvars, dvars, nvars>>
    \/ GroupsEnd /\ UNCHANGED <<uvars, tvars, cvars, gvars, mvars, svars, avars, pvars, qvars, dvars, nvars>>

PostSpec == PostSpecInit /\ [][PostSpecNext]_vars

\* runs of the two mains, one after the other
MainSpecInit ==
    /\ MainQuiet
    /\ UpsertInit
    /\ TokenQuiet /\ token_file = NoTokens /\ now = 0 /\ issued = 0
    /\ CacheInit
    /\ CategoryQuiet /\ categories = <<>>
    /\ PostQuiet
    /\ SleepQuiet
    /\ ActivityQuiet
    /\ UpsertRaceQuiet
    /\ TokenRaceQuiet
    /\ DecodeQuiet
    /\ NutritionQuiet

MainSpecNext ==
    \/ MainBegin /\ UNCHANGED <<uvars, tvars, cvars, gvars, wvars, svars, avars, pvars, qvars, dvars, nvars>>
    \/ RunSource /\ UNCHANGED <<uvars, tvars, cvars, gvars, wvars, svars, avars, pvars, qvars, dvars, nvars>>
    \/ MainEnd /\ UNCHANGED <<uvars, tvars, cvars, gvars, wvars, svars, avars, pvars, qvars, dvars, nvars>>

MainSpec == MainSpecInit /\ [][MainSpecNext]_vars

\* sleep fetches of backfill_sleep_data.py, one after the other
SleepSpecInit ==
    /\ SleepQuiet
    /\ UpsertInit
    /\ TokenQuiet /\ token_file = NoTokens /\ now = 0 /\ issued = 0
    /\ CacheInit
    /\ CategoryQuiet /\ categories = <<>>
    /\ PostQuiet
    /\ MainQuiet
    /\ ActivityQuiet
    /\ UpsertRaceQuiet
    /\ TokenRaceQuiet
    /\ DecodeQuiet
    /\ NutritionQuiet

SleepSpecNext ==
    \/ SleepFetchBegin /\ UNCHANGED <<uvars, tvars, cvars, gvars, wvars, mvars, avars, pvars, qvars, dvars, nvars>>
    \/ SleepFetchNoBed /\ UNCHANGED <<uvars, tvars, cvars, gvars, wvars, mvars, avars, pvars, qvars, dvars, nvars>>
    \/ SleepReplay /\ UNCHANGED <<uvars, tvars, cvars, gvars, wvars, mvars, avars, pvars, qvars, dvars, nvars>>
    \/ SleepDay /\ UNCHANGED <<uvars, tvars, cvars, gvars, wvars, mvars, avars, pvars, qvars, dvars, nvars>>
    \/ SleepFetchReturn /\ UNCHANGED <<uvars, tvars, cvars, gvars, wvars, mvars, avars, pvars, qvars, dvars, nvars>>

SleepSpec == SleepSpecInit /\ [][SleepSpecNext]_vars

\* the same, every request answering and the loop going on: the function
\* is one coroutine, run to its end by asyncio.run
SleepLiveSpec ==
    /\ SleepSpecInit
    /\ [][SleepSpecNext]_vars
    /\ WF_vars(SleepDay /\ UNCHANGED <<uvars, tvars, cvars, gvars, wvars, mvars, avars, pvars, qvars, dvars, nvars>>)
    /\ WF_vars(SleepFetchReturn
                 /\ UNCHANGED <<uvars, tvars, cvars, gvars, wvars, mvars, avars, pvars, qvars, dvars, nvars>>)

\* runs of the activity loop on one day record, one after the other
ActivitySpecInit ==
    /\ ActivityQuiet
    /\ UpsertInit
    /\ TokenQuiet /\ token_file = NoTokens /\ now = 0 /\ issued = 0
    /\ CacheInit
    /\ CategoryQuiet /\ categories = <<>>
    /\ PostQuiet
    /\ MainQuiet
    /\ SleepQuiet
    /\ UpsertRaceQuiet
    /\ TokenRaceQuiet
    /\ DecodeQuiet
    /\ NutritionQuiet

UpsertLocals ==
    <<upc, uscript, req, existing_id, attempt, writes, timeouts, clean, result,
      lookup, method, answered, debug_file, absent, first>>

ActivitySpecNext ==
    \/ ActivityBegin
          /\ UNCHANGED <<UpsertLocals, tvars, cvars, gvars, wvars, mvars, svars, pvars, qvars, dvars, nvars>>
    \/ ActivitySteps
          /\ UNCHANGED <<UpsertLocals, tvars, cvars, gvars, wvars, mvars, svars, pvars, qvars, dvars, nvars>>
    \/ ActivityDistance
          /\ UNCHANGED <<UpsertLocals, tvars, cvars, gvars, wvars, mvars, svars, pvars, qvars, dvars, nvars>>
    \/ ActivityCalories
          /\ UNCHANGED <<UpsertLocals, tvars, cvars, gvars, wvars, mvars, svars, pvars, qvars, dvars, nvars>>

ActivitySpec == ActivitySpecInit /\ [][ActivitySpecNext]_vars

\* two processes posting to one key of the destination
UpsertRaceSpecInit ==
    /\ UpsertRaceQuiet
    /\ TokenRaceQuiet
    /\ UpsertInit
    /\ TokenQuiet /\ token_file = NoTokens /\ now = 0 /\ issued = 0
    /\ CacheInit
    /\ CategoryQuiet /\ categories = <<>>
    /\ PostQuiet
    /\ MainQuiet
    /\ SleepQuiet
    /\ ActivityQuiet
    /\ DecodeQuiet
    /\ NutritionQuiet

UpsertRaceSpecNext ==
    \/ \E p \in Procs : RaceLookup(p)
          /\ UNCHANGED <<UpsertLocals, tvars, cvars, gvars, wvars, mvars, svars,
                         avars, qvars, dvars, nvars>>
    \/ \E p \in Procs : RaceWriteOk(p)
          /\ UNCHANGED <<UpsertLocals, tvars, cvars, gvars, wvars, mvars, svars,
                         avars, qvars, dvars, nvars>>
    \/ \E p \in Procs : RaceWriteFailed(p)
          /\ UNCHANGED <<UpsertLocals, tvars, cvars, gvars, wvars, mvars, svars,
                         avars, qvars, dvars, nvars>>

UpsertRaceSpec == UpsertRaceSpecInit /\ [][UpsertRaceSpecNext]_vars

\* two processes calling get_withings_access_token on one token file that
\* holds an expired credential
TokenRaceSpecInit ==
    /\ TokenRaceQuiet
    /\ UpsertRaceQuiet
    /\ TokenQuiet
    /\ token_file = Stamped(Body(1, 3600), 0)
    /\ now = RaceTime
    /\ issued = 1
    /\ UpsertInit
    /\ CacheInit
    /\ CategoryQuiet /\ categories = <<>>
    /\ PostQuiet
    /\ MainQuiet
    /\ SleepQuiet
    /\ ActivityQuiet
    /\ DecodeQuiet
    /\ NutritionQuiet

TokenLocals ==
    <<now, tpc, tscript, tokens, checked_at, refresh_called, rejected, granted,
      tresult>>

TokenRaceSpecNext ==
    \/ \E p \in Procs : TokenRaceEnter(p)
          /\ UNCHANGED <<TokenLocals, uvars, cvars, gvars, wvars, mvars, svars,
                         avars, pvars, dvars, nvars>>
    \/ \E p \in Procs : TokenRaceRefreshOk(p)
          /\ UNCHANGED <<TokenLocals, uvars, cvars, gvars, wvars, mvars, svars,
                         avars, pvars, dvars, nvars>>
    \/ \E p \in Procs : TokenRaceRefreshFailed(p)
          /\ UNCHANGED <<TokenLocals, uvars, cvars, gvars, wvars, mvars, svars,
                         avars, pvars, dvars, nvars>>
    \/ \E p \in Procs : TokenRaceOAuthOk(p)
          /\ UNCHANGED <<TokenLocals, uvars, cvars, gvars, wvars, mvars, svars,
                         avars, pvars, dvars, nvars>>
    \/ \E p \in Procs : TokenRaceOAuthFail(p)
          /\ UNCHANGED <<TokenLocals, uvars, cvars, gvars, wvars, mvars, svars,
                         avars, pvars, dvars, nvars>>
    \/ \E p \in Procs : TokenRaceSave(p)
          /\ UNCHANGED <<TokenLocals, uvars, cvars, gvars, wvars, mvars, svars,
                         avars, pvars, dvars, nvars>>

TokenRaceSpec == TokenRaceSpecInit /\ [][TokenRaceSpecNext]_vars

\* samples of a measure group read one after the other
DecodeSpecInit ==
    /\ DecodeQuiet
    /\ UpsertInit
    /\ TokenQuiet /\ token_file = NoTokens /\ now = 0 /\ issued = 0
    /\ CacheInit
    /\ CategoryQuiet /\ categories = <<>>
    /\ PostQuiet
    /\ MainQuiet
    /\ SleepQuiet
    /\ ActivityQuiet
    /\ UpsertRaceQuiet
    /\ TokenRaceQuiet
    /\ NutritionQuiet

DecodeSpecNext ==
    \/ MeasureRead /\ UNCHANGED <<uvars, tvars, cvars, gvars, wvars, mvars, svars, avars, pvars, qvars, nvars>>
    \/ MeasurePost /\ UNCHANGED <<uvars, tvars, cvars, gvars, wvars, mvars, svars, avars, pvars, qvars, nvars>>
    \/ MeasurePass /\ UNCHANGED <<uvars, tvars, cvars, gvars, wvars, mvars, svars, avars, pvars, qvars, nvars>>

DecodeSpec == DecodeSpecInit /\ [][DecodeSpecNext]_vars

\* combine_with_constants on records and constants of every shape
CombineSpecInit ==
    /\ NutritionQuiet
    /\ UpsertInit
    /\ TokenQuiet /\ token_file = NoTokens /\ now = 0 /\ issued = 0
    /\ CacheInit
    /\ CategoryQuiet /\ categories = <<>>
    /\ PostQuiet
    /\ MainQuiet
    /\ SleepQuiet
    /\ ActivityQuiet
    /\ UpsertRaceQuiet
    /\ TokenRaceQuiet
    /\ DecodeQuiet

CombineSpecNext ==
    \/ NutritionLoad(NutritionRecords, ConfigsOf(Meals))
          /\ UNCHANGED <<UpsertLocals, tvars, cvars, gvars, wvars, mvars, svars, avars, pvars, qvars, dvars>>
    \/ NutritionCombine
          /\ UNCHANGED <<UpsertLocals, tvars, cvars, gvars, wvars, mvars, svars, avars, pvars, qvars, dvars>>

CombineSpec == CombineSpecInit /\ [][CombineSpecNext]_vars

\* runs of sync_mfp_nutrition against the destination, one after the other
NutritionSpecNext ==
    \/ NutritionLoad(RunRecords, RunConfigs)
          /\ UNCHANGED <<UpsertLocals, tvars, cvars, gvars, wvars, mvars, svars, avars, pvars, qvars, dvars>>
    \/ NutritionCombine
          /\ UNCHANGED <<UpsertLocals, tvars, cvars, gvars, wvars, mvars, svars, avars, pvars, qvars, dvars>>
    \/ NutritionPost
          /\ UNCHANGED <<UpsertLocals, tvars, cvars, gvars, wvars, mvars, svars, avars, pvars, qvars, dvars>>
    \/ NutritionReturn
          /\ UNCHANGED <<UpsertLocals, tvars, cvars, gvars, wvars, mvars, svars, avars, pvars, qvars, dvars>>

NutritionSpec == CombineSpecInit /\ [][NutritionSpecNext]_vars

\* sync_withings has returned: its locals are gone
ActivityGone ==
    /\ ascript' = "backfill_all_data"
    /\ apc' = "idle"
    /\ aday' = [date |-> 0, steps |-> MissingField, distance |-> MissingField,
                calories |-> MissingField]
    /\ posted' = <<>>
    /\ empty_start' = TRUE
    /\ rows_before' = 0
    /\ second' = FALSE

\* sync_mfp_nutrition has returned: its locals are gone
NutritionGone ==
    /\ npc' = "idle"
    /\ config' = NoConfig
    /\ given' = Record(0, 0, 0, 0, 0, 0)
    /\ nutrition' = Record(0, 0, 0, 0, 0, 0)
    /\ constants' = <<>>
    /\ combined' = Record(0, 0, 0, 0, 0, 0)
    /\ nidx' = 0
    /\ nposted' = {}
    /\ nclean' = TRUE
    /\ nempty' = TRUE
    /\ nsecond' = FALSE

\* the daily sync: sync_withings and sync_mfp_nutrition called one after
\* the other against one destination; the locals of the function that has
\* returned are gone when the other one is called
DailySpecNext ==
    \/ ActivityRun(DailyRecords)
          /\ npc \in {"idle", "returned", "aborted"} /\ NutritionGone
          /\ UNCHANGED <<UpsertLocals, tvars, cvars, gvars, wvars, mvars, svars, pvars, qvars, dvars>>
    \/ ActivitySteps
          /\ UNCHANGED <<UpsertLocals, tvars, cvars, gvars, wvars, mvars, svars, pvars, qvars, dvars, nvars>>
    \/ ActivityDistance
          /\ UNCHANGED <<UpsertLocals, tvars, cvars, gvars, wvars, mvars, svars, pvars, qvars, dvars, nvars>>
    \/ ActivityCalories
          /\ UNCHANGED <<UpsertLocals, tvars, cvars, gvars, wvars, mvars, svars, pvars, qvars, dvars, nvars>>
    \/ NutritionLoad(RunRecords, RunConfigs)
          /\ apc \in {"idle", "returned", "aborted"} /\ ActivityGone
          /\ UNCHANGED <<UpsertLocals, tvars, cvars, gvars, wvars, mvars, svars, pvars, qvars, dvars>>
    \/ NutritionCombine
          /\ UNCHANGED <<UpsertLocals, tvars, cvars, gvars, wvars, mvars, svars, avars, pvars, qvars, dvars>>
    \/ NutritionPost
          /\ UNCHANGED <<UpsertLocals, tvars, cvars, gvars, wvars, mvars, svars, avars, pvars, qvars, dvars>>
    \/ NutritionReturn
          /\ UNCHANGED <<UpsertLocals, tvars, cvars, gvars, wvars, mvars, svars, avars, pvars, qvars, dvars>>

DailySpec == CombineSpecInit /\ [][DailySpecNext]_vars

====
